---- MODULE Spec2Model ----
(***************************************************************************)
(* Model of the SHEGA backend ingestion router (services/mqttService.js,   *)
(* found in src/backend/src/middleware/scope.js lines 23-246), the socket  *)
(* fan-out module (src/unnamed/part_001) and the collaborators they call.  *)
(*                                                                         *)
(* JavaScript strings are sequences of one-character strings, so that      *)
(* toUpperCase, includes and the HOME_dd regular expression are computed.  *)
(* JavaScript values are records [t, n, s, items]: t is the kind of the    *)
(* value, n the number (or 0/1 for a boolean), s the characters of a       *)
(* string, items the elements of an array.                                 *)
(***************************************************************************)
EXTENDS Integers, Sequences, FiniteSets, TLC

\* ------------------------------------------------------------------ bounds
\* Number of inbound bus messages delivered to the router in one behaviour.
MaxMsgs == 2
\* Number of control commands issued in one behaviour, through
\* sendDeviceControl or by another client of the broker.
MaxCmds == 2
\* Number of calls of the sockets emitters in one behaviour (SpecFan).
MaxEmits == 2
\* ticks and control messages of the simulator
MaxSimSteps == 3
\* connections and emitter calls in one behaviour (SpecSock)
MaxSockSteps == 4

\* ------------------------------------------------------------- JS strings
\* A character is a one-character string when it is a printable ASCII
\* character or one of \t \n \f \r, and its code point written "U+XXXX"
\* otherwise (the grave accent is "U+0060").
LowerChars == <<"a","b","c","d","e","f","g","h","i","j","k","l","m",
                "n","o","p","q","r","s","t","u","v","w","x","y","z">>
UpperChars == <<"A","B","C","D","E","F","G","H","I","J","K","L","M",
                "N","O","P","Q","R","S","T","U","V","W","X","Y","Z">>
DigitChars == <<"0","1","2","3","4","5","6","7","8","9">>

IsDigit(c) == \E i \in 1..10 : DigitChars[i] = c

\* the letters outside ASCII that toUpperCase changes, each with the text it
\* becomes (Unicode 17.0.0, UnicodeData and the unconditional SpecialCasing)
UpperCaseTable ==
    << <<"U+00B5", <<"U+039C">>>>, <<"U+00DF", <<"S","S">>>>, <<"U+00E0", <<"U+00C0">>>>, <<"U+00E1", <<"U+00C1">>>>,
       <<"U+00E2", <<"U+00C2">>>>, <<"U+00E3", <<"U+00C3">>>>, <<"U+00E4", <<"U+00C4">>>>, <<"U+00E5", <<"U+00C5">>>>,
       <<"U+00E6", <<"U+00C6">>>>, <<"U+00E7", <<"U+00C7">>>>, <<"U+00E8", <<"U+00C8">>>>, <<"U+00E9", <<"U+00C9">>>>,
       <<"U+00EA", <<"U+00CA">>>>, <<"U+00EB", <<"U+00CB">>>>, <<"U+00EC", <<"U+00CC">>>>, <<"U+00ED", <<"U+00CD">>>>,
       <<"U+00EE", <<"U+00CE">>>>, <<"U+00EF", <<"U+00CF">>>>, <<"U+00F0", <<"U+00D0">>>>, <<"U+00F1", <<"U+00D1">>>>,
       <<"U+00F2", <<"U+00D2">>>>, <<"U+00F3", <<"U+00D3">>>>, <<"U+00F4", <<"U+00D4">>>>, <<"U+00F5", <<"U+00D5">>>>,
       <<"U+00F6", <<"U+00D6">>>>, <<"U+00F8", <<"U+00D8">>>>, <<"U+00F9", <<"U+00D9">>>>, <<"U+00FA", <<"U+00DA">>>>,
       <<"U+00FB", <<"U+00DB">>>>, <<"U+00FC", <<"U+00DC">>>>, <<"U+00FD", <<"U+00DD">>>>, <<"U+00FE", <<"U+00DE">>>>,
       <<"U+00FF", <<"U+0178">>>>, <<"U+0101", <<"U+0100">>>>, <<"U+0103", <<"U+0102">>>>, <<"U+0105", <<"U+0104">>>>,
       <<"U+0107", <<"U+0106">>>>, <<"U+0109", <<"U+0108">>>>, <<"U+010B", <<"U+010A">>>>, <<"U+010D", <<"U+010C">>>>,
       <<"U+010F", <<"U+010E">>>>, <<"U+0111", <<"U+0110">>>>, <<"U+0113", <<"U+0112">>>>, <<"U+0115", <<"U+0114">>>>,
       <<"U+0117", <<"U+0116">>>>, <<"U+0119", <<"U+0118">>>>, <<"U+011B", <<"U+011A">>>>, <<"U+011D", <<"U+011C">>>>,
       <<"U+011F", <<"U+011E">>>>, <<"U+0121", <<"U+0120">>>>, <<"U+0123", <<"U+0122">>>>, <<"U+0125", <<"U+0124">>>>,
       <<"U+0127", <<"U+0126">>>>, <<"U+0129", <<"U+0128">>>>, <<"U+012B", <<"U+012A">>>>, <<"U+012D", <<"U+012C">>>>,
       <<"U+012F", <<"U+012E">>>>, <<"U+0131", <<"I">>>>, <<"U+0133", <<"U+0132">>>>, <<"U+0135", <<"U+0134">>>>,
       <<"U+0137", <<"U+0136">>>>, <<"U+013A", <<"U+0139">>>>, <<"U+013C", <<"U+013B">>>>, <<"U+013E", <<"U+013D">>>>,
       <<"U+0140", <<"U+013F">>>>, <<"U+0142", <<"U+0141">>>>, <<"U+0144", <<"U+0143">>>>, <<"U+0146", <<"U+0145">>>>,
       <<"U+0148", <<"U+0147">>>>, <<"U+0149", <<"U+02BC","N">>>>, <<"U+014B", <<"U+014A">>>>, <<"U+014D", <<"U+014C">>>>,
       <<"U+014F", <<"U+014E">>>>, <<"U+0151", <<"U+0150">>>>, <<"U+0153", <<"U+0152">>>>, <<"U+0155", <<"U+0154">>>>,
       <<"U+0157", <<"U+0156">>>>, <<"U+0159", <<"U+0158">>>>, <<"U+015B", <<"U+015A">>>>, <<"U+015D", <<"U+015C">>>>,
       <<"U+015F", <<"U+015E">>>>, <<"U+0161", <<"U+0160">>>>, <<"U+0163", <<"U+0162">>>>, <<"U+0165", <<"U+0164">>>>,
       <<"U+0167", <<"U+0166">>>>, <<"U+0169", <<"U+0168">>>>, <<"U+016B", <<"U+016A">>>>, <<"U+016D", <<"U+016C">>>>,
       <<"U+016F", <<"U+016E">>>>, <<"U+0171", <<"U+0170">>>>, <<"U+0173", <<"U+0172">>>>, <<"U+0175", <<"U+0174">>>>,
       <<"U+0177", <<"U+0176">>>>, <<"U+017A", <<"U+0179">>>>, <<"U+017C", <<"U+017B">>>>, <<"U+017E", <<"U+017D">>>>,
       <<"U+017F", <<"S">>>>, <<"U+0180", <<"U+0243">>>>, <<"U+0183", <<"U+0182">>>>, <<"U+0185", <<"U+0184">>>>,
       <<"U+0188", <<"U+0187">>>>, <<"U+018C", <<"U+018B">>>>, <<"U+0192", <<"U+0191">>>>, <<"U+0195", <<"U+01F6">>>>,
       <<"U+0199", <<"U+0198">>>>, <<"U+019A", <<"U+023D">>>>, <<"U+019B", <<"U+A7DC">>>>, <<"U+019E", <<"U+0220">>>>,
       <<"U+01A1", <<"U+01A0">>>>, <<"U+01A3", <<"U+01A2">>>>, <<"U+01A5", <<"U+01A4">>>>, <<"U+01A8", <<"U+01A7">>>>,
       <<"U+01AD", <<"U+01AC">>>>, <<"U+01B0", <<"U+01AF">>>>, <<"U+01B4", <<"U+01B3">>>>, <<"U+01B6", <<"U+01B5">>>>,
       <<"U+01B9", <<"U+01B8">>>>, <<"U+01BD", <<"U+01BC">>>>, <<"U+01BF", <<"U+01F7">>>>, <<"U+01C5", <<"U+01C4">>>>,
       <<"U+01C6", <<"U+01C4">>>>, <<"U+01C8", <<"U+01C7">>>>, <<"U+01C9", <<"U+01C7">>>>, <<"U+01CB", <<"U+01CA">>>>,
       <<"U+01CC", <<"U+01CA">>>>, <<"U+01CE", <<"U+01CD">>>>, <<"U+01D0", <<"U+01CF">>>>, <<"U+01D2", <<"U+01D1">>>>,
       <<"U+01D4", <<"U+01D3">>>>, <<"U+01D6", <<"U+01D5">>>>, <<"U+01D8", <<"U+01D7">>>>, <<"U+01DA", <<"U+01D9">>>>,
       <<"U+01DC", <<"U+01DB">>>>, <<"U+01DD", <<"U+018E">>>>, <<"U+01DF", <<"U+01DE">>>>, <<"U+01E1", <<"U+01E0">>>>,
       <<"U+01E3", <<"U+01E2">>>>, <<"U+01E5", <<"U+01E4">>>>, <<"U+01E7", <<"U+01E6">>>>, <<"U+01E9", <<"U+01E8">>>>,
       <<"U+01EB", <<"U+01EA">>>>, <<"U+01ED", <<"U+01EC">>>>, <<"U+01EF", <<"U+01EE">>>>, <<"U+01F0", <<"J","U+030C">>>>,
       <<"U+01F2", <<"U+01F1">>>>, <<"U+01F3", <<"U+01F1">>>>, <<"U+01F5", <<"U+01F4">>>>, <<"U+01F9", <<"U+01F8">>>>,
       <<"U+01FB", <<"U+01FA">>>>, <<"U+01FD", <<"U+01FC">>>>, <<"U+01FF", <<"U+01FE">>>>, <<"U+0201", <<"U+0200">>>>,
       <<"U+0203", <<"U+0202">>>>, <<"U+0205", <<"U+0204">>>>, <<"U+0207", <<"U+0206">>>>, <<"U+0209", <<"U+0208">>>>,
       <<"U+020B", <<"U+020A">>>>, <<"U+020D", <<"U+020C">>>>, <<"U+020F", <<"U+020E">>>>, <<"U+0211", <<"U+0210">>>>,
       <<"U+0213", <<"U+0212">>>>, <<"U+0215", <<"U+0214">>>>, <<"U+0217", <<"U+0216">>>>, <<"U+0219", <<"U+0218">>>>,
       <<"U+021B", <<"U+021A">>>>, <<"U+021D", <<"U+021C">>>>, <<"U+021F", <<"U+021E">>>>, <<"U+0223", <<"U+0222">>>>,
       <<"U+0225", <<"U+0224">>>>, <<"U+0227", <<"U+0226">>>>, <<"U+0229", <<"U+0228">>>>, <<"U+022B", <<"U+022A">>>>,
       <<"U+022D", <<"U+022C">>>>, <<"U+022F", <<"U+022E">>>>, <<"U+0231", <<"U+0230">>>>, <<"U+0233", <<"U+0232">>>>,
       <<"U+023C", <<"U+023B">>>>, <<"U+023F", <<"U+2C7E">>>>, <<"U+0240", <<"U+2C7F">>>>, <<"U+0242", <<"U+0241">>>>,
       <<"U+0247", <<"U+0246">>>>, <<"U+0249", <<"U+0248">>>>, <<"U+024B", <<"U+024A">>>>, <<"U+024D", <<"U+024C">>>>,
       <<"U+024F", <<"U+024E">>>>, <<"U+0250", <<"U+2C6F">>>>, <<"U+0251", <<"U+2C6D">>>>, <<"U+0252", <<"U+2C70">>>>,
       <<"U+0253", <<"U+0181">>>>, <<"U+0254", <<"U+0186">>>>, <<"U+0256", <<"U+0189">>>>, <<"U+0257", <<"U+018A">>>>,
       <<"U+0259", <<"U+018F">>>>, <<"U+025B", <<"U+0190">>>>, <<"U+025C", <<"U+A7AB">>>>, <<"U+0260", <<"U+0193">>>>,
       <<"U+0261", <<"U+A7AC">>>>, <<"U+0263", <<"U+0194">>>>, <<"U+0264", <<"U+A7CB">>>>, <<"U+0265", <<"U+A78D">>>>,
       <<"U+0266", <<"U+A7AA">>>>, <<"U+0268", <<"U+0197">>>>, <<"U+0269", <<"U+0196">>>>, <<"U+026A", <<"U+A7AE">>>>,
       <<"U+026B", <<"U+2C62">>>>, <<"U+026C", <<"U+A7AD">>>>, <<"U+026F", <<"U+019C">>>>, <<"U+0271", <<"U+2C6E">>>>,
       <<"U+0272", <<"U+019D">>>>, <<"U+0275", <<"U+019F">>>>, <<"U+027D", <<"U+2C64">>>>, <<"U+0280", <<"U+01A6">>>>,
       <<"U+0282", <<"U+A7C5">>>>, <<"U+0283", <<"U+01A9">>>>, <<"U+0287", <<"U+A7B1">>>>, <<"U+0288", <<"U+01AE">>>>,
       <<"U+0289", <<"U+0244">>>>, <<"U+028A", <<"U+01B1">>>>, <<"U+028B", <<"U+01B2">>>>, <<"U+028C", <<"U+0245">>>>,
       <<"U+0292", <<"U+01B7">>>>, <<"U+029D", <<"U+A7B2">>>>, <<"U+029E", <<"U+A7B0">>>>, <<"U+0345", <<"U+0399">>>>,
       <<"U+0371", <<"U+0370">>>>, <<"U+0373", <<"U+0372">>>>, <<"U+0377", <<"U+0376">>>>, <<"U+037B", <<"U+03FD">>>>,
       <<"U+037C", <<"U+03FE">>>>, <<"U+037D", <<"U+03FF">>>>, <<"U+0390", <<"U+0399","U+0308","U+0301">>>>, <<"U+03AC", <<"U+0386">>>>,
       <<"U+03AD", <<"U+0388">>>>, <<"U+03AE", <<"U+0389">>>>, <<"U+03AF", <<"U+038A">>>>, <<"U+03B0", <<"U+03A5","U+0308","U+0301">>>>,
       <<"U+03B1", <<"U+0391">>>>, <<"U+03B2", <<"U+0392">>>>, <<"U+03B3", <<"U+0393">>>>, <<"U+03B4", <<"U+0394">>>>,
       <<"U+03B5", <<"U+0395">>>>, <<"U+03B6", <<"U+0396">>>>, <<"U+03B7", <<"U+0397">>>>, <<"U+03B8", <<"U+0398">>>>,
       <<"U+03B9", <<"U+0399">>>>, <<"U+03BA", <<"U+039A">>>>, <<"U+03BB", <<"U+039B">>>>, <<"U+03BC", <<"U+039C">>>>,
       <<"U+03BD", <<"U+039D">>>>, <<"U+03BE", <<"U+039E">>>>, <<"U+03BF", <<"U+039F">>>>, <<"U+03C0", <<"U+03A0">>>>,
       <<"U+03C1", <<"U+03A1">>>>, <<"U+03C2", <<"U+03A3">>>>, <<"U+03C3", <<"U+03A3">>>>, <<"U+03C4", <<"U+03A4">>>>,
       <<"U+03C5", <<"U+03A5">>>>, <<"U+03C6", <<"U+03A6">>>>, <<"U+03C7", <<"U+03A7">>>>, <<"U+03C8", <<"U+03A8">>>>,
       <<"U+03C9", <<"U+03A9">>>>, <<"U+03CA", <<"U+03AA">>>>, <<"U+03CB", <<"U+03AB">>>>, <<"U+03CC", <<"U+038C">>>>,
       <<"U+03CD", <<"U+038E">>>>, <<"U+03CE", <<"U+038F">>>>, <<"U+03D0", <<"U+0392">>>>, <<"U+03D1", <<"U+0398">>>>,
       <<"U+03D5", <<"U+03A6">>>>, <<"U+03D6", <<"U+03A0">>>>, <<"U+03D7", <<"U+03CF">>>>, <<"U+03D9", <<"U+03D8">>>>,
       <<"U+03DB", <<"U+03DA">>>>, <<"U+03DD", <<"U+03DC">>>>, <<"U+03DF", <<"U+03DE">>>>, <<"U+03E1", <<"U+03E0">>>>,
       <<"U+03E3", <<"U+03E2">>>>, <<"U+03E5", <<"U+03E4">>>>, <<"U+03E7", <<"U+03E6">>>>, <<"U+03E9", <<"U+03E8">>>>,
       <<"U+03EB", <<"U+03EA">>>>, <<"U+03ED", <<"U+03EC">>>>, <<"U+03EF", <<"U+03EE">>>>, <<"U+03F0", <<"U+039A">>>>,
       <<"U+03F1", <<"U+03A1">>>>, <<"U+03F2", <<"U+03F9">>>>, <<"U+03F3", <<"U+037F">>>>, <<"U+03F5", <<"U+0395">>>>,
       <<"U+03F8", <<"U+03F7">>>>, <<"U+03FB", <<"U+03FA">>>>, <<"U+0430", <<"U+0410">>>>, <<"U+0431", <<"U+0411">>>>,
       <<"U+0432", <<"U+0412">>>>, <<"U+0433", <<"U+0413">>>>, <<"U+0434", <<"U+0414">>>>, <<"U+0435", <<"U+0415">>>>,
       <<"U+0436", <<"U+0416">>>>, <<"U+0437", <<"U+0417">>>>, <<"U+0438", <<"U+0418">>>>, <<"U+0439", <<"U+0419">>>>,
       <<"U+043A", <<"U+041A">>>>, <<"U+043B", <<"U+041B">>>>, <<"U+043C", <<"U+041C">>>>, <<"U+043D", <<"U+041D">>>>,
       <<"U+043E", <<"U+041E">>>>, <<"U+043F", <<"U+041F">>>>, <<"U+0440", <<"U+0420">>>>, <<"U+0441", <<"U+0421">>>>,
       <<"U+0442", <<"U+0422">>>>, <<"U+0443", <<"U+0423">>>>, <<"U+0444", <<"U+0424">>>>, <<"U+0445", <<"U+0425">>>>,
       <<"U+0446", <<"U+0426">>>>, <<"U+0447", <<"U+0427">>>>, <<"U+0448", <<"U+0428">>>>, <<"U+0449", <<"U+0429">>>>,
       <<"U+044A", <<"U+042A">>>>, <<"U+044B", <<"U+042B">>>>, <<"U+044C", <<"U+042C">>>>, <<"U+044D", <<"U+042D">>>>,
       <<"U+044E", <<"U+042E">>>>, <<"U+044F", <<"U+042F">>>>, <<"U+0450", <<"U+0400">>>>, <<"U+0451", <<"U+0401">>>>,
       <<"U+0452", <<"U+0402">>>>, <<"U+0453", <<"U+0403">>>>, <<"U+0454", <<"U+0404">>>>, <<"U+0455", <<"U+0405">>>>,
       <<"U+0456", <<"U+0406">>>>, <<"U+0457", <<"U+0407">>>>, <<"U+0458", <<"U+0408">>>>, <<"U+0459", <<"U+0409">>>>,
       <<"U+045A", <<"U+040A">>>>, <<"U+045B", <<"U+040B">>>>, <<"U+045C", <<"U+040C">>>>, <<"U+045D", <<"U+040D">>>>,
       <<"U+045E", <<"U+040E">>>>, <<"U+045F", <<"U+040F">>>>, <<"U+0461", <<"U+0460">>>>, <<"U+0463", <<"U+0462">>>>,
       <<"U+0465", <<"U+0464">>>>, <<"U+0467", <<"U+0466">>>>, <<"U+0469", <<"U+0468">>>>, <<"U+046B", <<"U+046A">>>>,
       <<"U+046D", <<"U+046C">>>>, <<"U+046F", <<"U+046E">>>>, <<"U+0471", <<"U+0470">>>>, <<"U+0473", <<"U+0472">>>>,
       <<"U+0475", <<"U+0474">>>>, <<"U+0477", <<"U+0476">>>>, <<"U+0479", <<"U+0478">>>>, <<"U+047B", <<"U+047A">>>>,
       <<"U+047D", <<"U+047C">>>>, <<"U+047F", <<"U+047E">>>>, <<"U+0481", <<"U+0480">>>>, <<"U+048B", <<"U+048A">>>>,
       <<"U+048D", <<"U+048C">>>>, <<"U+048F", <<"U+048E">>>>, <<"U+0491", <<"U+0490">>>>, <<"U+0493", <<"U+0492">>>>,
       <<"U+0495", <<"U+0494">>>>, <<"U+0497", <<"U+0496">>>>, <<"U+0499", <<"U+0498">>>>, <<"U+049B", <<"U+049A">>>>,
       <<"U+049D", <<"U+049C">>>>, <<"U+049F", <<"U+049E">>>>, <<"U+04A1", <<"U+04A0">>>>, <<"U+04A3", <<"U+04A2">>>>,
       <<"U+04A5", <<"U+04A4">>>>, <<"U+04A7", <<"U+04A6">>>>, <<"U+04A9", <<"U+04A8">>>>, <<"U+04AB", <<"U+04AA">>>>,
       <<"U+04AD", <<"U+04AC">>>>, <<"U+04AF", <<"U+04AE">>>>, <<"U+04B1", <<"U+04B0">>>>, <<"U+04B3", <<"U+04B2">>>>,
       <<"U+04B5", <<"U+04B4">>>>, <<"U+04B7", <<"U+04B6">>>>, <<"U+04B9", <<"U+04B8">>>>, <<"U+04BB", <<"U+04BA">>>>,
       <<"U+04BD", <<"U+04BC">>>>, <<"U+04BF", <<"U+04BE">>>>, <<"U+04C2", <<"U+04C1">>>>, <<"U+04C4", <<"U+04C3">>>>,
       <<"U+04C6", <<"U+04C5">>>>, <<"U+04C8", <<"U+04C7">>>>, <<"U+04CA", <<"U+04C9">>>>, <<"U+04CC", <<"U+04CB">>>>,
       <<"U+04CE", <<"U+04CD">>>>, <<"U+04CF", <<"U+04C0">>>>, <<"U+04D1", <<"U+04D0">>>>, <<"U+04D3", <<"U+04D2">>>>,
       <<"U+04D5", <<"U+04D4">>>>, <<"U+04D7", <<"U+04D6">>>>, <<"U+04D9", <<"U+04D8">>>>, <<"U+04DB", <<"U+04DA">>>>,
       <<"U+04DD", <<"U+04DC">>>>, <<"U+04DF", <<"U+04DE">>>>, <<"U+04E1", <<"U+04E0">>>>, <<"U+04E3", <<"U+04E2">>>>,
       <<"U+04E5", <<"U+04E4">>>>, <<"U+04E7", <<"U+04E6">>>>, <<"U+04E9", <<"U+04E8">>>>, <<"U+04EB", <<"U+04EA">>>>,
       <<"U+04ED", <<"U+04EC">>>>, <<"U+04EF", <<"U+04EE">>>>, <<"U+04F1", <<"U+04F0">>>>, <<"U+04F3", <<"U+04F2">>>>,
       <<"U+04F5", <<"U+04F4">>>>, <<"U+04F7", <<"U+04F6">>>>, <<"U+04F9", <<"U+04F8">>>>, <<"U+04FB", <<"U+04FA">>>>,
       <<"U+04FD", <<"U+04FC">>>>, <<"U+04FF", <<"U+04FE">>>>, <<"U+0501", <<"U+0500">>>>, <<"U+0503", <<"U+0502">>>>,
       <<"U+0505", <<"U+0504">>>>, <<"U+0507", <<"U+0506">>>>, <<"U+0509", <<"U+0508">>>>, <<"U+050B", <<"U+050A">>>>,
       <<"U+050D", <<"U+050C">>>>, <<"U+050F", <<"U+050E">>>>, <<"U+0511", <<"U+0510">>>>, <<"U+0513", <<"U+0512">>>>,
       <<"U+0515", <<"U+0514">>>>, <<"U+0517", <<"U+0516">>>>, <<"U+0519", <<"U+0518">>>>, <<"U+051B", <<"U+051A">>>>,
       <<"U+051D", <<"U+051C">>>>, <<"U+051F", <<"U+051E">>>>, <<"U+0521", <<"U+0520">>>>, <<"U+0523", <<"U+0522">>>>,
       <<"U+0525", <<"U+0524">>>>, <<"U+0527", <<"U+0526">>>>, <<"U+0529", <<"U+0528">>>>, <<"U+052B", <<"U+052A">>>>,
       <<"U+052D", <<"U+052C">>>>, <<"U+052F", <<"U+052E">>>>, <<"U+0561", <<"U+0531">>>>, <<"U+0562", <<"U+0532">>>>,
       <<"U+0563", <<"U+0533">>>>, <<"U+0564", <<"U+0534">>>>, <<"U+0565", <<"U+0535">>>>, <<"U+0566", <<"U+0536">>>>,
       <<"U+0567", <<"U+0537">>>>, <<"U+0568", <<"U+0538">>>>, <<"U+0569", <<"U+0539">>>>, <<"U+056A", <<"U+053A">>>>,
       <<"U+056B", <<"U+053B">>>>, <<"U+056C", <<"U+053C">>>>, <<"U+056D", <<"U+053D">>>>, <<"U+056E", <<"U+053E">>>>,
       <<"U+056F", <<"U+053F">>>>, <<"U+0570", <<"U+0540">>>>, <<"U+0571", <<"U+0541">>>>, <<"U+0572", <<"U+0542">>>>,
       <<"U+0573", <<"U+0543">>>>, <<"U+0574", <<"U+0544">>>>, <<"U+0575", <<"U+0545">>>>, <<"U+0576", <<"U+0546">>>>,
       <<"U+0577", <<"U+0547">>>>, <<"U+0578", <<"U+0548">>>>, <<"U+0579", <<"U+0549">>>>, <<"U+057A", <<"U+054A">>>>,
       <<"U+057B", <<"U+054B">>>>, <<"U+057C", <<"U+054C">>>>, <<"U+057D", <<"U+054D">>>>, <<"U+057E", <<"U+054E">>>>,
       <<"U+057F", <<"U+054F">>>>, <<"U+0580", <<"U+0550">>>>, <<"U+0581", <<"U+0551">>>>, <<"U+0582", <<"U+0552">>>>,
       <<"U+0583", <<"U+0553">>>>, <<"U+0584", <<"U+0554">>>>, <<"U+0585", <<"U+0555">>>>, <<"U+0586", <<"U+0556">>>>,
       <<"U+0587", <<"U+0535","U+0552">>>>, <<"U+10D0", <<"U+1C90">>>>, <<"U+10D1", <<"U+1C91">>>>, <<"U+10D2", <<"U+1C92">>>>,
       <<"U+10D3", <<"U+1C93">>>>, <<"U+10D4", <<"U+1C94">>>>, <<"U+10D5", <<"U+1C95">>>>, <<"U+10D6", <<"U+1C96">>>>,
       <<"U+10D7", <<"U+1C97">>>>, <<"U+10D8", <<"U+1C98">>>>, <<"U+10D9", <<"U+1C99">>>>, <<"U+10DA", <<"U+1C9A">>>>,
       <<"U+10DB", <<"U+1C9B">>>>, <<"U+10DC", <<"U+1C9C">>>>, <<"U+10DD", <<"U+1C9D">>>>, <<"U+10DE", <<"U+1C9E">>>>,
       <<"U+10DF", <<"U+1C9F">>>>, <<"U+10E0", <<"U+1CA0">>>>, <<"U+10E1", <<"U+1CA1">>>>, <<"U+10E2", <<"U+1CA2">>>>,
       <<"U+10E3", <<"U+1CA3">>>>, <<"U+10E4", <<"U+1CA4">>>>, <<"U+10E5", <<"U+1CA5">>>>, <<"U+10E6", <<"U+1CA6">>>>,
       <<"U+10E7", <<"U+1CA7">>>>, <<"U+10E8", <<"U+1CA8">>>>, <<"U+10E9", <<"U+1CA9">>>>, <<"U+10EA", <<"U+1CAA">>>>,
       <<"U+10EB", <<"U+1CAB">>>>, <<"U+10EC", <<"U+1CAC">>>>, <<"U+10ED", <<"U+1CAD">>>>, <<"U+10EE", <<"U+1CAE">>>>,
       <<"U+10EF", <<"U+1CAF">>>>, <<"U+10F0", <<"U+1CB0">>>>, <<"U+10F1", <<"U+1CB1">>>>, <<"U+10F2", <<"U+1CB2">>>>,
       <<"U+10F3", <<"U+1CB3">>>>, <<"U+10F4", <<"U+1CB4">>>>, <<"U+10F5", <<"U+1CB5">>>>, <<"U+10F6", <<"U+1CB6">>>>,
       <<"U+10F7", <<"U+1CB7">>>>, <<"U+10F8", <<"U+1CB8">>>>, <<"U+10F9", <<"U+1CB9">>>>, <<"U+10FA", <<"U+1CBA">>>>,
       <<"U+10FD", <<"U+1CBD">>>>, <<"U+10FE", <<"U+1CBE">>>>, <<"U+10FF", <<"U+1CBF">>>>, <<"U+13F8", <<"U+13F0">>>>,
       <<"U+13F9", <<"U+13F1">>>>, <<"U+13FA", <<"U+13F2">>>>, <<"U+13FB", <<"U+13F3">>>>, <<"U+13FC", <<"U+13F4">>>>,
       <<"U+13FD", <<"U+13F5">>>>, <<"U+1C80", <<"U+0412">>>>, <<"U+1C81", <<"U+0414">>>>, <<"U+1C82", <<"U+041E">>>>,
       <<"U+1C83", <<"U+0421">>>>, <<"U+1C84", <<"U+0422">>>>, <<"U+1C85", <<"U+0422">>>>, <<"U+1C86", <<"U+042A">>>>,
       <<"U+1C87", <<"U+0462">>>>, <<"U+1C88", <<"U+A64A">>>>, <<"U+1C8A", <<"U+1C89">>>>, <<"U+1D79", <<"U+A77D">>>>,
       <<"U+1D7D", <<"U+2C63">>>>, <<"U+1D8E", <<"U+A7C6">>>>, <<"U+1E01", <<"U+1E00">>>>, <<"U+1E03", <<"U+1E02">>>>,
       <<"U+1E05", <<"U+1E04">>>>, <<"U+1E07", <<"U+1E06">>>>, <<"U+1E09", <<"U+1E08">>>>, <<"U+1E0B", <<"U+1E0A">>>>,
       <<"U+1E0D", <<"U+1E0C">>>>, <<"U+1E0F", <<"U+1E0E">>>>, <<"U+1E11", <<"U+1E10">>>>, <<"U+1E13", <<"U+1E12">>>>,
       <<"U+1E15", <<"U+1E14">>>>, <<"U+1E17", <<"U+1E16">>>>, <<"U+1E19", <<"U+1E18">>>>, <<"U+1E1B", <<"U+1E1A">>>>,
       <<"U+1E1D", <<"U+1E1C">>>>, <<"U+1E1F", <<"U+1E1E">>>>, <<"U+1E21", <<"U+1E20">>>>, <<"U+1E23", <<"U+1E22">>>>,
       <<"U+1E25", <<"U+1E24">>>>, <<"U+1E27", <<"U+1E26">>>>, <<"U+1E29", <<"U+1E28">>>>, <<"U+1E2B", <<"U+1E2A">>>>,
       <<"U+1E2D", <<"U+1E2C">>>>, <<"U+1E2F", <<"U+1E2E">>>>, <<"U+1E31", <<"U+1E30">>>>, <<"U+1E33", <<"U+1E32">>>>,
       <<"U+1E35", <<"U+1E34">>>>, <<"U+1E37", <<"U+1E36">>>>, <<"U+1E39", <<"U+1E38">>>>, <<"U+1E3B", <<"U+1E3A">>>>,
       <<"U+1E3D", <<"U+1E3C">>>>, <<"U+1E3F", <<"U+1E3E">>>>, <<"U+1E41", <<"U+1E40">>>>, <<"U+1E43", <<"U+1E42">>>>,
       <<"U+1E45", <<"U+1E44">>>>, <<"U+1E47", <<"U+1E46">>>>, <<"U+1E49", <<"U+1E48">>>>, <<"U+1E4B", <<"U+1E4A">>>>,
       <<"U+1E4D", <<"U+1E4C">>>>, <<"U+1E4F", <<"U+1E4E">>>>, <<"U+1E51", <<"U+1E50">>>>, <<"U+1E53", <<"U+1E52">>>>,
       <<"U+1E55", <<"U+1E54">>>>, <<"U+1E57", <<"U+1E56">>>>, <<"U+1E59", <<"U+1E58">>>>, <<"U+1E5B", <<"U+1E5A">>>>,
       <<"U+1E5D", <<"U+1E5C">>>>, <<"U+1E5F", <<"U+1E5E">>>>, <<"U+1E61", <<"U+1E60">>>>, <<"U+1E63", <<"U+1E62">>>>,
       <<"U+1E65", <<"U+1E64">>>>, <<"U+1E67", <<"U+1E66">>>>, <<"U+1E69", <<"U+1E68">>>>, <<"U+1E6B", <<"U+1E6A">>>>,
       <<"U+1E6D", <<"U+1E6C">>>>, <<"U+1E6F", <<"U+1E6E">>>>, <<"U+1E71", <<"U+1E70">>>>, <<"U+1E73", <<"U+1E72">>>>,
       <<"U+1E75", <<"U+1E74">>>>, <<"U+1E77", <<"U+1E76">>>>, <<"U+1E79", <<"U+1E78">>>>, <<"U+1E7B", <<"U+1E7A">>>>,
       <<"U+1E7D", <<"U+1E7C">>>>, <<"U+1E7F", <<"U+1E7E">>>>, <<"U+1E81", <<"U+1E80">>>>, <<"U+1E83", <<"U+1E82">>>>,
       <<"U+1E85", <<"U+1E84">>>>, <<"U+1E87", <<"U+1E86">>>>, <<"U+1E89", <<"U+1E88">>>>, <<"U+1E8B", <<"U+1E8A">>>>,
       <<"U+1E8D", <<"U+1E8C">>>>, <<"U+1E8F", <<"U+1E8E">>>>, <<"U+1E91", <<"U+1E90">>>>, <<"U+1E93", <<"U+1E92">>>>,
       <<"U+1E95", <<"U+1E94">>>>, <<"U+1E96", <<"H","U+0331">>>>, <<"U+1E97", <<"T","U+0308">>>>, <<"U+1E98", <<"W","U+030A">>>>,
       <<"U+1E99", <<"Y","U+030A">>>>, <<"U+1E9A", <<"A","U+02BE">>>>, <<"U+1E9B", <<"U+1E60">>>>, <<"U+1EA1", <<"U+1EA0">>>>,
       <<"U+1EA3", <<"U+1EA2">>>>, <<"U+1EA5", <<"U+1EA4">>>>, <<"U+1EA7", <<"U+1EA6">>>>, <<"U+1EA9", <<"U+1EA8">>>>,
       <<"U+1EAB", <<"U+1EAA">>>>, <<"U+1EAD", <<"U+1EAC">>>>, <<"U+1EAF", <<"U+1EAE">>>>, <<"U+1EB1", <<"U+1EB0">>>>,
       <<"U+1EB3", <<"U+1EB2">>>>, <<"U+1EB5", <<"U+1EB4">>>>, <<"U+1EB7", <<"U+1EB6">>>>, <<"U+1EB9", <<"U+1EB8">>>>,
       <<"U+1EBB", <<"U+1EBA">>>>, <<"U+1EBD", <<"U+1EBC">>>>, <<"U+1EBF", <<"U+1EBE">>>>, <<"U+1EC1", <<"U+1EC0">>>>,
       <<"U+1EC3", <<"U+1EC2">>>>, <<"U+1EC5", <<"U+1EC4">>>>, <<"U+1EC7", <<"U+1EC6">>>>, <<"U+1EC9", <<"U+1EC8">>>>,
       <<"U+1ECB", <<"U+1ECA">>>>, <<"U+1ECD", <<"U+1ECC">>>>, <<"U+1ECF", <<"U+1ECE">>>>, <<"U+1ED1", <<"U+1ED0">>>>,
       <<"U+1ED3", <<"U+1ED2">>>>, <<"U+1ED5", <<"U+1ED4">>>>, <<"U+1ED7", <<"U+1ED6">>>>, <<"U+1ED9", <<"U+1ED8">>>>,
       <<"U+1EDB", <<"U+1EDA">>>>, <<"U+1EDD", <<"U+1EDC">>>>, <<"U+1EDF", <<"U+1EDE">>>>, <<"U+1EE1", <<"U+1EE0">>>>,
       <<"U+1EE3", <<"U+1EE2">>>>, <<"U+1EE5", <<"U+1EE4">>>>, <<"U+1EE7", <<"U+1EE6">>>>, <<"U+1EE9", <<"U+1EE8">>>>,
       <<"U+1EEB", <<"U+1EEA">>>>, <<"U+1EED", <<"U+1EEC">>>>, <<"U+1EEF", <<"U+1EEE">>>>, <<"U+1EF1", <<"U+1EF0">>>>,
       <<"U+1EF3", <<"U+1EF2">>>>, <<"U+1EF5", <<"U+1EF4">>>>, <<"U+1EF7", <<"U+1EF6">>>>, <<"U+1EF9", <<"U+1EF8">>>>,
       <<"U+1EFB", <<"U+1EFA">>>>, <<"U+1EFD", <<"U+1EFC">>>>, <<"U+1EFF", <<"U+1EFE">>>>, <<"U+1F00", <<"U+1F08">>>>,
       <<"U+1F01", <<"U+1F09">>>>, <<"U+1F02", <<"U+1F0A">>>>, <<"U+1F03", <<"U+1F0B">>>>, <<"U+1F04", <<"U+1F0C">>>>,
       <<"U+1F05", <<"U+1F0D">>>>, <<"U+1F06", <<"U+1F0E">>>>, <<"U+1F07", <<"U+1F0F">>>>, <<"U+1F10", <<"U+1F18">>>>,
       <<"U+1F11", <<"U+1F19">>>>, <<"U+1F12", <<"U+1F1A">>>>, <<"U+1F13", <<"U+1F1B">>>>, <<"U+1F14", <<"U+1F1C">>>>,
       <<"U+1F15", <<"U+1F1D">>>>, <<"U+1F20", <<"U+1F28">>>>, <<"U+1F21", <<"U+1F29">>>>, <<"U+1F22", <<"U+1F2A">>>>,
       <<"U+1F23", <<"U+1F2B">>>>, <<"U+1F24", <<"U+1F2C">>>>, <<"U+1F25", <<"U+1F2D">>>>, <<"U+1F26", <<"U+1F2E">>>>,
       <<"U+1F27", <<"U+1F2F">>>>, <<"U+1F30", <<"U+1F38">>>>, <<"U+1F31", <<"U+1F39">>>>, <<"U+1F32", <<"U+1F3A">>>>,
       <<"U+1F33", <<"U+1F3B">>>>, <<"U+1F34", <<"U+1F3C">>>>, <<"U+1F35", <<"U+1F3D">>>>, <<"U+1F36", <<"U+1F3E">>>>,
       <<"U+1F37", <<"U+1F3F">>>>, <<"U+1F40", <<"U+1F48">>>>, <<"U+1F41", <<"U+1F49">>>>, <<"U+1F42", <<"U+1F4A">>>>,
       <<"U+1F43", <<"U+1F4B">>>>, <<"U+1F44", <<"U+1F4C">>>>, <<"U+1F45", <<"U+1F4D">>>>, <<"U+1F50", <<"U+03A5","U+0313">>>>,
       <<"U+1F51", <<"U+1F59">>>>, <<"U+1F52", <<"U+03A5","U+0313","U+0300">>>>, <<"U+1F53", <<"U+1F5B">>>>, <<"U+1F54", <<"U+03A5","U+0313","U+0301">>>>,
       <<"U+1F55", <<"U+1F5D">>>>, <<"U+1F56", <<"U+03A5","U+0313","U+0342">>>>, <<"U+1F57", <<"U+1F5F">>>>, <<"U+1F60", <<"U+1F68">>>>,
       <<"U+1F61", <<"U+1F69">>>>, <<"U+1F62", <<"U+1F6A">>>>, <<"U+1F63", <<"U+1F6B">>>>, <<"U+1F64", <<"U+1F6C">>>>,
       <<"U+1F65", <<"U+1F6D">>>>, <<"U+1F66", <<"U+1F6E">>>>, <<"U+1F67", <<"U+1F6F">>>>, <<"U+1F70", <<"U+1FBA">>>>,
       <<"U+1F71", <<"U+1FBB">>>>, <<"U+1F72", <<"U+1FC8">>>>, <<"U+1F73", <<"U+1FC9">>>>, <<"U+1F74", <<"U+1FCA">>>>,
       <<"U+1F75", <<"U+1FCB">>>>, <<"U+1F76", <<"U+1FDA">>>>, <<"U+1F77", <<"U+1FDB">>>>, <<"U+1F78", <<"U+1FF8">>>>,
       <<"U+1F79", <<"U+1FF9">>>>, <<"U+1F7A", <<"U+1FEA">>>>, <<"U+1F7B", <<"U+1FEB">>>>, <<"U+1F7C", <<"U+1FFA">>>>,
       <<"U+1F7D", <<"U+1FFB">>>>, <<"U+1F80", <<"U+1F08","U+0399">>>>, <<"U+1F81", <<"U+1F09","U+0399">>>>, <<"U+1F82", <<"U+1F0A","U+0399">>>>,
       <<"U+1F83", <<"U+1F0B","U+0399">>>>, <<"U+1F84", <<"U+1F0C","U+0399">>>>, <<"U+1F85", <<"U+1F0D","U+0399">>>>, <<"U+1F86", <<"U+1F0E","U+0399">>>>,
       <<"U+1F87", <<"U+1F0F","U+0399">>>>, <<"U+1F88", <<"U+1F08","U+0399">>>>, <<"U+1F89", <<"U+1F09","U+0399">>>>, <<"U+1F8A", <<"U+1F0A","U+0399">>>>,
       <<"U+1F8B", <<"U+1F0B","U+0399">>>>, <<"U+1F8C", <<"U+1F0C","U+0399">>>>, <<"U+1F8D", <<"U+1F0D","U+0399">>>>, <<"U+1F8E", <<"U+1F0E","U+0399">>>>,
       <<"U+1F8F", <<"U+1F0F","U+0399">>>>, <<"U+1F90", <<"U+1F28","U+0399">>>>, <<"U+1F91", <<"U+1F29","U+0399">>>>, <<"U+1F92", <<"U+1F2A","U+0399">>>>,
       <<"U+1F93", <<"U+1F2B","U+0399">>>>, <<"U+1F94", <<"U+1F2C","U+0399">>>>, <<"U+1F95", <<"U+1F2D","U+0399">>>>, <<"U+1F96", <<"U+1F2E","U+0399">>>>,
       <<"U+1F97", <<"U+1F2F","U+0399">>>>, <<"U+1F98", <<"U+1F28","U+0399">>>>, <<"U+1F99", <<"U+1F29","U+0399">>>>, <<"U+1F9A", <<"U+1F2A","U+0399">>>>,
       <<"U+1F9B", <<"U+1F2B","U+0399">>>>, <<"U+1F9C", <<"U+1F2C","U+0399">>>>, <<"U+1F9D", <<"U+1F2D","U+0399">>>>, <<"U+1F9E", <<"U+1F2E","U+0399">>>>,
       <<"U+1F9F", <<"U+1F2F","U+0399">>>>, <<"U+1FA0", <<"U+1F68","U+0399">>>>, <<"U+1FA1", <<"U+1F69","U+0399">>>>, <<"U+1FA2", <<"U+1F6A","U+0399">>>>,
       <<"U+1FA3", <<"U+1F6B","U+0399">>>>, <<"U+1FA4", <<"U+1F6C","U+0399">>>>, <<"U+1FA5", <<"U+1F6D","U+0399">>>>, <<"U+1FA6", <<"U+1F6E","U+0399">>>>,
       <<"U+1FA7", <<"U+1F6F","U+0399">>>>, <<"U+1FA8", <<"U+1F68","U+0399">>>>, <<"U+1FA9", <<"U+1F69","U+0399">>>>, <<"U+1FAA", <<"U+1F6A","U+0399">>>>,
       <<"U+1FAB", <<"U+1F6B","U+0399">>>>, <<"U+1FAC", <<"U+1F6C","U+0399">>>>, <<"U+1FAD", <<"U+1F6D","U+0399">>>>, <<"U+1FAE", <<"U+1F6E","U+0399">>>>,
       <<"U+1FAF", <<"U+1F6F","U+0399">>>>, <<"U+1FB0", <<"U+1FB8">>>>, <<"U+1FB1", <<"U+1FB9">>>>, <<"U+1FB2", <<"U+1FBA","U+0399">>>>,
       <<"U+1FB3", <<"U+0391","U+0399">>>>, <<"U+1FB4", <<"U+0386","U+0399">>>>, <<"U+1FB6", <<"U+0391","U+0342">>>>, <<"U+1FB7", <<"U+0391","U+0342","U+0399">>>>,
       <<"U+1FBC", <<"U+0391","U+0399">>>>, <<"U+1FBE", <<"U+0399">>>>, <<"U+1FC2", <<"U+1FCA","U+0399">>>>, <<"U+1FC3", <<"U+0397","U+0399">>>>,
       <<"U+1FC4", <<"U+0389","U+0399">>>>, <<"U+1FC6", <<"U+0397","U+0342">>>>, <<"U+1FC7", <<"U+0397","U+0342","U+0399">>>>, <<"U+1FCC", <<"U+0397","U+0399">>>>,
       <<"U+1FD0", <<"U+1FD8">>>>, <<"U+1FD1", <<"U+1FD9">>>>, <<"U+1FD2", <<"U+0399","U+0308","U+0300">>>>, <<"U+1FD3", <<"U+0399","U+0308","U+0301">>>>,
       <<"U+1FD6", <<"U+0399","U+0342">>>>, <<"U+1FD7", <<"U+0399","U+0308","U+0342">>>>, <<"U+1FE0", <<"U+1FE8">>>>, <<"U+1FE1", <<"U+1FE9">>>>,
       <<"U+1FE2", <<"U+03A5","U+0308","U+0300">>>>, <<"U+1FE3", <<"U+03A5","U+0308","U+0301">>>>, <<"U+1FE4", <<"U+03A1","U+0313">>>>, <<"U+1FE5", <<"U+1FEC">>>>,
       <<"U+1FE6", <<"U+03A5","U+0342">>>>, <<"U+1FE7", <<"U+03A5","U+0308","U+0342">>>>, <<"U+1FF2", <<"U+1FFA","U+0399">>>>, <<"U+1FF3", <<"U+03A9","U+0399">>>>,
       <<"U+1FF4", <<"U+038F","U+0399">>>>, <<"U+1FF6", <<"U+03A9","U+0342">>>>, <<"U+1FF7", <<"U+03A9","U+0342","U+0399">>>>, <<"U+1FFC", <<"U+03A9","U+0399">>>>,
       <<"U+214E", <<"U+2132">>>>, <<"U+2170", <<"U+2160">>>>, <<"U+2171", <<"U+2161">>>>, <<"U+2172", <<"U+2162">>>>,
       <<"U+2173", <<"U+2163">>>>, <<"U+2174", <<"U+2164">>>>, <<"U+2175", <<"U+2165">>>>, <<"U+2176", <<"U+2166">>>>,
       <<"U+2177", <<"U+2167">>>>, <<"U+2178", <<"U+2168">>>>, <<"U+2179", <<"U+2169">>>>, <<"U+217A", <<"U+216A">>>>,
       <<"U+217B", <<"U+216B">>>>, <<"U+217C", <<"U+216C">>>>, <<"U+217D", <<"U+216D">>>>, <<"U+217E", <<"U+216E">>>>,
       <<"U+217F", <<"U+216F">>>>, <<"U+2184", <<"U+2183">>>>, <<"U+24D0", <<"U+24B6">>>>, <<"U+24D1", <<"U+24B7">>>>,
       <<"U+24D2", <<"U+24B8">>>>, <<"U+24D3", <<"U+24B9">>>>, <<"U+24D4", <<"U+24BA">>>>, <<"U+24D5", <<"U+24BB">>>>,
       <<"U+24D6", <<"U+24BC">>>>, <<"U+24D7", <<"U+24BD">>>>, <<"U+24D8", <<"U+24BE">>>>, <<"U+24D9", <<"U+24BF">>>>,
       <<"U+24DA", <<"U+24C0">>>>, <<"U+24DB", <<"U+24C1">>>>, <<"U+24DC", <<"U+24C2">>>>, <<"U+24DD", <<"U+24C3">>>>,
       <<"U+24DE", <<"U+24C4">>>>, <<"U+24DF", <<"U+24C5">>>>, <<"U+24E0", <<"U+24C6">>>>, <<"U+24E1", <<"U+24C7">>>>,
       <<"U+24E2", <<"U+24C8">>>>, <<"U+24E3", <<"U+24C9">>>>, <<"U+24E4", <<"U+24CA">>>>, <<"U+24E5", <<"U+24CB">>>>,
       <<"U+24E6", <<"U+24CC">>>>, <<"U+24E7", <<"U+24CD">>>>, <<"U+24E8", <<"U+24CE">>>>, <<"U+24E9", <<"U+24CF">>>>,
       <<"U+2C30", <<"U+2C00">>>>, <<"U+2C31", <<"U+2C01">>>>, <<"U+2C32", <<"U+2C02">>>>, <<"U+2C33", <<"U+2C03">>>>,
       <<"U+2C34", <<"U+2C04">>>>, <<"U+2C35", <<"U+2C05">>>>, <<"U+2C36", <<"U+2C06">>>>, <<"U+2C37", <<"U+2C07">>>>,
       <<"U+2C38", <<"U+2C08">>>>, <<"U+2C39", <<"U+2C09">>>>, <<"U+2C3A", <<"U+2C0A">>>>, <<"U+2C3B", <<"U+2C0B">>>>,
       <<"U+2C3C", <<"U+2C0C">>>>, <<"U+2C3D", <<"U+2C0D">>>>, <<"U+2C3E", <<"U+2C0E">>>>, <<"U+2C3F", <<"U+2C0F">>>>,
       <<"U+2C40", <<"U+2C10">>>>, <<"U+2C41", <<"U+2C11">>>>, <<"U+2C42", <<"U+2C12">>>>, <<"U+2C43", <<"U+2C13">>>>,
       <<"U+2C44", <<"U+2C14">>>>, <<"U+2C45", <<"U+2C15">>>>, <<"U+2C46", <<"U+2C16">>>>, <<"U+2C47", <<"U+2C17">>>>,
       <<"U+2C48", <<"U+2C18">>>>, <<"U+2C49", <<"U+2C19">>>>, <<"U+2C4A", <<"U+2C1A">>>>, <<"U+2C4B", <<"U+2C1B">>>>,
       <<"U+2C4C", <<"U+2C1C">>>>, <<"U+2C4D", <<"U+2C1D">>>>, <<"U+2C4E", <<"U+2C1E">>>>, <<"U+2C4F", <<"U+2C1F">>>>,
       <<"U+2C50", <<"U+2C20">>>>, <<"U+2C51", <<"U+2C21">>>>, <<"U+2C52", <<"U+2C22">>>>, <<"U+2C53", <<"U+2C23">>>>,
       <<"U+2C54", <<"U+2C24">>>>, <<"U+2C55", <<"U+2C25">>>>, <<"U+2C56", <<"U+2C26">>>>, <<"U+2C57", <<"U+2C27">>>>,
       <<"U+2C58", <<"U+2C28">>>>, <<"U+2C59", <<"U+2C29">>>>, <<"U+2C5A", <<"U+2C2A">>>>, <<"U+2C5B", <<"U+2C2B">>>>,
       <<"U+2C5C", <<"U+2C2C">>>>, <<"U+2C5D", <<"U+2C2D">>>>, <<"U+2C5E", <<"U+2C2E">>>>, <<"U+2C5F", <<"U+2C2F">>>>,
       <<"U+2C61", <<"U+2C60">>>>, <<"U+2C65", <<"U+023A">>>>, <<"U+2C66", <<"U+023E">>>>, <<"U+2C68", <<"U+2C67">>>>,
       <<"U+2C6A", <<"U+2C69">>>>, <<"U+2C6C", <<"U+2C6B">>>>, <<"U+2C73", <<"U+2C72">>>>, <<"U+2C76", <<"U+2C75">>>>,
       <<"U+2C81", <<"U+2C80">>>>, <<"U+2C83", <<"U+2C82">>>>, <<"U+2C85", <<"U+2C84">>>>, <<"U+2C87", <<"U+2C86">>>>,
       <<"U+2C89", <<"U+2C88">>>>, <<"U+2C8B", <<"U+2C8A">>>>, <<"U+2C8D", <<"U+2C8C">>>>, <<"U+2C8F", <<"U+2C8E">>>>,
       <<"U+2C91", <<"U+2C90">>>>, <<"U+2C93", <<"U+2C92">>>>, <<"U+2C95", <<"U+2C94">>>>, <<"U+2C97", <<"U+2C96">>>>,
       <<"U+2C99", <<"U+2C98">>>>, <<"U+2C9B", <<"U+2C9A">>>>, <<"U+2C9D", <<"U+2C9C">>>>, <<"U+2C9F", <<"U+2C9E">>>>,
       <<"U+2CA1", <<"U+2CA0">>>>, <<"U+2CA3", <<"U+2CA2">>>>, <<"U+2CA5", <<"U+2CA4">>>>, <<"U+2CA7", <<"U+2CA6">>>>,
       <<"U+2CA9", <<"U+2CA8">>>>, <<"U+2CAB", <<"U+2CAA">>>>, <<"U+2CAD", <<"U+2CAC">>>>, <<"U+2CAF", <<"U+2CAE">>>>,
       <<"U+2CB1", <<"U+2CB0">>>>, <<"U+2CB3", <<"U+2CB2">>>>, <<"U+2CB5", <<"U+2CB4">>>>, <<"U+2CB7", <<"U+2CB6">>>>,
       <<"U+2CB9", <<"U+2CB8">>>>, <<"U+2CBB", <<"U+2CBA">>>>, <<"U+2CBD", <<"U+2CBC">>>>, <<"U+2CBF", <<"U+2CBE">>>>,
       <<"U+2CC1", <<"U+2CC0">>>>, <<"U+2CC3", <<"U+2CC2">>>>, <<"U+2CC5", <<"U+2CC4">>>>, <<"U+2CC7", <<"U+2CC6">>>>,
       <<"U+2CC9", <<"U+2CC8">>>>, <<"U+2CCB", <<"U+2CCA">>>>, <<"U+2CCD", <<"U+2CCC">>>>, <<"U+2CCF", <<"U+2CCE">>>>,
       <<"U+2CD1", <<"U+2CD0">>>>, <<"U+2CD3", <<"U+2CD2">>>>, <<"U+2CD5", <<"U+2CD4">>>>, <<"U+2CD7", <<"U+2CD6">>>>,
       <<"U+2CD9", <<"U+2CD8">>>>, <<"U+2CDB", <<"U+2CDA">>>>, <<"U+2CDD", <<"U+2CDC">>>>, <<"U+2CDF", <<"U+2CDE">>>>,
       <<"U+2CE1", <<"U+2CE0">>>>, <<"U+2CE3", <<"U+2CE2">>>>, <<"U+2CEC", <<"U+2CEB">>>>, <<"U+2CEE", <<"U+2CED">>>>,
       <<"U+2CF3", <<"U+2CF2">>>>, <<"U+2D00", <<"U+10A0">>>>, <<"U+2D01", <<"U+10A1">>>>, <<"U+2D02", <<"U+10A2">>>>,
       <<"U+2D03", <<"U+10A3">>>>, <<"U+2D04", <<"U+10A4">>>>, <<"U+2D05", <<"U+10A5">>>>, <<"U+2D06", <<"U+10A6">>>>,
       <<"U+2D07", <<"U+10A7">>>>, <<"U+2D08", <<"U+10A8">>>>, <<"U+2D09", <<"U+10A9">>>>, <<"U+2D0A", <<"U+10AA">>>>,
       <<"U+2D0B", <<"U+10AB">>>>, <<"U+2D0C", <<"U+10AC">>>>, <<"U+2D0D", <<"U+10AD">>>>, <<"U+2D0E", <<"U+10AE">>>>,
       <<"U+2D0F", <<"U+10AF">>>>, <<"U+2D10", <<"U+10B0">>>>, <<"U+2D11", <<"U+10B1">>>>, <<"U+2D12", <<"U+10B2">>>>,
       <<"U+2D13", <<"U+10B3">>>>, <<"U+2D14", <<"U+10B4">>>>, <<"U+2D15", <<"U+10B5">>>>, <<"U+2D16", <<"U+10B6">>>>,
       <<"U+2D17", <<"U+10B7">>>>, <<"U+2D18", <<"U+10B8">>>>, <<"U+2D19", <<"U+10B9">>>>, <<"U+2D1A", <<"U+10BA">>>>,
       <<"U+2D1B", <<"U+10BB">>>>, <<"U+2D1C", <<"U+10BC">>>>, <<"U+2D1D", <<"U+10BD">>>>, <<"U+2D1E", <<"U+10BE">>>>,
       <<"U+2D1F", <<"U+10BF">>>>, <<"U+2D20", <<"U+10C0">>>>, <<"U+2D21", <<"U+10C1">>>>, <<"U+2D22", <<"U+10C2">>>>,
       <<"U+2D23", <<"U+10C3">>>>, <<"U+2D24", <<"U+10C4">>>>, <<"U+2D25", <<"U+10C5">>>>, <<"U+2D27", <<"U+10C7">>>>,
       <<"U+2D2D", <<"U+10CD">>>>, <<"U+A641", <<"U+A640">>>>, <<"U+A643", <<"U+A642">>>>, <<"U+A645", <<"U+A644">>>>,
       <<"U+A647", <<"U+A646">>>>, <<"U+A649", <<"U+A648">>>>, <<"U+A64B", <<"U+A64A">>>>, <<"U+A64D", <<"U+A64C">>>>,
       <<"U+A64F", <<"U+A64E">>>>, <<"U+A651", <<"U+A650">>>>, <<"U+A653", <<"U+A652">>>>, <<"U+A655", <<"U+A654">>>>,
       <<"U+A657", <<"U+A656">>>>, <<"U+A659", <<"U+A658">>>>, <<"U+A65B", <<"U+A65A">>>>, <<"U+A65D", <<"U+A65C">>>>,
       <<"U+A65F", <<"U+A65E">>>>, <<"U+A661", <<"U+A660">>>>, <<"U+A663", <<"U+A662">>>>, <<"U+A665", <<"U+A664">>>>,
       <<"U+A667", <<"U+A666">>>>, <<"U+A669", <<"U+A668">>>>, <<"U+A66B", <<"U+A66A">>>>, <<"U+A66D", <<"U+A66C">>>>,
       <<"U+A681", <<"U+A680">>>>, <<"U+A683", <<"U+A682">>>>, <<"U+A685", <<"U+A684">>>>, <<"U+A687", <<"U+A686">>>>,
       <<"U+A689", <<"U+A688">>>>, <<"U+A68B", <<"U+A68A">>>>, <<"U+A68D", <<"U+A68C">>>>, <<"U+A68F", <<"U+A68E">>>>,
       <<"U+A691", <<"U+A690">>>>, <<"U+A693", <<"U+A692">>>>, <<"U+A695", <<"U+A694">>>>, <<"U+A697", <<"U+A696">>>>,
       <<"U+A699", <<"U+A698">>>>, <<"U+A69B", <<"U+A69A">>>>, <<"U+A723", <<"U+A722">>>>, <<"U+A725", <<"U+A724">>>>,
       <<"U+A727", <<"U+A726">>>>, <<"U+A729", <<"U+A728">>>>, <<"U+A72B", <<"U+A72A">>>>, <<"U+A72D", <<"U+A72C">>>>,
       <<"U+A72F", <<"U+A72E">>>>, <<"U+A733", <<"U+A732">>>>, <<"U+A735", <<"U+A734">>>>, <<"U+A737", <<"U+A736">>>>,
       <<"U+A739", <<"U+A738">>>>, <<"U+A73B", <<"U+A73A">>>>, <<"U+A73D", <<"U+A73C">>>>, <<"U+A73F", <<"U+A73E">>>>,
       <<"U+A741", <<"U+A740">>>>, <<"U+A743", <<"U+A742">>>>, <<"U+A745", <<"U+A744">>>>, <<"U+A747", <<"U+A746">>>>,
       <<"U+A749", <<"U+A748">>>>, <<"U+A74B", <<"U+A74A">>>>, <<"U+A74D", <<"U+A74C">>>>, <<"U+A74F", <<"U+A74E">>>>,
       <<"U+A751", <<"U+A750">>>>, <<"U+A753", <<"U+A752">>>>, <<"U+A755", <<"U+A754">>>>, <<"U+A757", <<"U+A756">>>>,
       <<"U+A759", <<"U+A758">>>>, <<"U+A75B", <<"U+A75A">>>>, <<"U+A75D", <<"U+A75C">>>>, <<"U+A75F", <<"U+A75E">>>>,
       <<"U+A761", <<"U+A760">>>>, <<"U+A763", <<"U+A762">>>>, <<"U+A765", <<"U+A764">>>>, <<"U+A767", <<"U+A766">>>>,
       <<"U+A769", <<"U+A768">>>>, <<"U+A76B", <<"U+A76A">>>>, <<"U+A76D", <<"U+A76C">>>>, <<"U+A76F", <<"U+A76E">>>>,
       <<"U+A77A", <<"U+A779">>>>, <<"U+A77C", <<"U+A77B">>>>, <<"U+A77F", <<"U+A77E">>>>, <<"U+A781", <<"U+A780">>>>,
       <<"U+A783", <<"U+A782">>>>, <<"U+A785", <<"U+A784">>>>, <<"U+A787", <<"U+A786">>>>, <<"U+A78C", <<"U+A78B">>>>,
       <<"U+A791", <<"U+A790">>>>, <<"U+A793", <<"U+A792">>>>, <<"U+A794", <<"U+A7C4">>>>, <<"U+A797", <<"U+A796">>>>,
       <<"U+A799", <<"U+A798">>>>, <<"U+A79B", <<"U+A79A">>>>, <<"U+A79D", <<"U+A79C">>>>, <<"U+A79F", <<"U+A79E">>>>,
       <<"U+A7A1", <<"U+A7A0">>>>, <<"U+A7A3", <<"U+A7A2">>>>, <<"U+A7A5", <<"U+A7A4">>>>, <<"U+A7A7", <<"U+A7A6">>>>,
       <<"U+A7A9", <<"U+A7A8">>>>, <<"U+A7B5", <<"U+A7B4">>>>, <<"U+A7B7", <<"U+A7B6">>>>, <<"U+A7B9", <<"U+A7B8">>>>,
       <<"U+A7BB", <<"U+A7BA">>>>, <<"U+A7BD", <<"U+A7BC">>>>, <<"U+A7BF", <<"U+A7BE">>>>, <<"U+A7C1", <<"U+A7C0">>>>,
       <<"U+A7C3", <<"U+A7C2">>>>, <<"U+A7C8", <<"U+A7C7">>>>, <<"U+A7CA", <<"U+A7C9">>>>, <<"U+A7CD", <<"U+A7CC">>>>,
       <<"U+A7CF", <<"U+A7CE">>>>, <<"U+A7D1", <<"U+A7D0">>>>, <<"U+A7D3", <<"U+A7D2">>>>, <<"U+A7D5", <<"U+A7D4">>>>,
       <<"U+A7D7", <<"U+A7D6">>>>, <<"U+A7D9", <<"U+A7D8">>>>, <<"U+A7DB", <<"U+A7DA">>>>, <<"U+A7F6", <<"U+A7F5">>>>,
       <<"U+AB53", <<"U+A7B3">>>>, <<"U+AB70", <<"U+13A0">>>>, <<"U+AB71", <<"U+13A1">>>>, <<"U+AB72", <<"U+13A2">>>>,
       <<"U+AB73", <<"U+13A3">>>>, <<"U+AB74", <<"U+13A4">>>>, <<"U+AB75", <<"U+13A5">>>>, <<"U+AB76", <<"U+13A6">>>>,
       <<"U+AB77", <<"U+13A7">>>>, <<"U+AB78", <<"U+13A8">>>>, <<"U+AB79", <<"U+13A9">>>>, <<"U+AB7A", <<"U+13AA">>>>,
       <<"U+AB7B", <<"U+13AB">>>>, <<"U+AB7C", <<"U+13AC">>>>, <<"U+AB7D", <<"U+13AD">>>>, <<"U+AB7E", <<"U+13AE">>>>,
       <<"U+AB7F", <<"U+13AF">>>>, <<"U+AB80", <<"U+13B0">>>>, <<"U+AB81", <<"U+13B1">>>>, <<"U+AB82", <<"U+13B2">>>>,
       <<"U+AB83", <<"U+13B3">>>>, <<"U+AB84", <<"U+13B4">>>>, <<"U+AB85", <<"U+13B5">>>>, <<"U+AB86", <<"U+13B6">>>>,
       <<"U+AB87", <<"U+13B7">>>>, <<"U+AB88", <<"U+13B8">>>>, <<"U+AB89", <<"U+13B9">>>>, <<"U+AB8A", <<"U+13BA">>>>,
       <<"U+AB8B", <<"U+13BB">>>>, <<"U+AB8C", <<"U+13BC">>>>, <<"U+AB8D", <<"U+13BD">>>>, <<"U+AB8E", <<"U+13BE">>>>,
       <<"U+AB8F", <<"U+13BF">>>>, <<"U+AB90", <<"U+13C0">>>>, <<"U+AB91", <<"U+13C1">>>>, <<"U+AB92", <<"U+13C2">>>>,
       <<"U+AB93", <<"U+13C3">>>>, <<"U+AB94", <<"U+13C4">>>>, <<"U+AB95", <<"U+13C5">>>>, <<"U+AB96", <<"U+13C6">>>>,
       <<"U+AB97", <<"U+13C7">>>>, <<"U+AB98", <<"U+13C8">>>>, <<"U+AB99", <<"U+13C9">>>>, <<"U+AB9A", <<"U+13CA">>>>,
       <<"U+AB9B", <<"U+13CB">>>>, <<"U+AB9C", <<"U+13CC">>>>, <<"U+AB9D", <<"U+13CD">>>>, <<"U+AB9E", <<"U+13CE">>>>,
       <<"U+AB9F", <<"U+13CF">>>>, <<"U+ABA0", <<"U+13D0">>>>, <<"U+ABA1", <<"U+13D1">>>>, <<"U+ABA2", <<"U+13D2">>>>,
       <<"U+ABA3", <<"U+13D3">>>>, <<"U+ABA4", <<"U+13D4">>>>, <<"U+ABA5", <<"U+13D5">>>>, <<"U+ABA6", <<"U+13D6">>>>,
       <<"U+ABA7", <<"U+13D7">>>>, <<"U+ABA8", <<"U+13D8">>>>, <<"U+ABA9", <<"U+13D9">>>>, <<"U+ABAA", <<"U+13DA">>>>,
       <<"U+ABAB", <<"U+13DB">>>>, <<"U+ABAC", <<"U+13DC">>>>, <<"U+ABAD", <<"U+13DD">>>>, <<"U+ABAE", <<"U+13DE">>>>,
       <<"U+ABAF", <<"U+13DF">>>>, <<"U+ABB0", <<"U+13E0">>>>, <<"U+ABB1", <<"U+13E1">>>>, <<"U+ABB2", <<"U+13E2">>>>,
       <<"U+ABB3", <<"U+13E3">>>>, <<"U+ABB4", <<"U+13E4">>>>, <<"U+ABB5", <<"U+13E5">>>>, <<"U+ABB6", <<"U+13E6">>>>,
       <<"U+ABB7", <<"U+13E7">>>>, <<"U+ABB8", <<"U+13E8">>>>, <<"U+ABB9", <<"U+13E9">>>>, <<"U+ABBA", <<"U+13EA">>>>,
       <<"U+ABBB", <<"U+13EB">>>>, <<"U+ABBC", <<"U+13EC">>>>, <<"U+ABBD", <<"U+13ED">>>>, <<"U+ABBE", <<"U+13EE">>>>,
       <<"U+ABBF", <<"U+13EF">>>>, <<"U+FB00", <<"F","F">>>>, <<"U+FB01", <<"F","I">>>>, <<"U+FB02", <<"F","L">>>>,
       <<"U+FB03", <<"F","F","I">>>>, <<"U+FB04", <<"F","F","L">>>>, <<"U+FB05", <<"S","T">>>>, <<"U+FB06", <<"S","T">>>>,
       <<"U+FB13", <<"U+0544","U+0546">>>>, <<"U+FB14", <<"U+0544","U+0535">>>>, <<"U+FB15", <<"U+0544","U+053B">>>>, <<"U+FB16", <<"U+054E","U+0546">>>>,
       <<"U+FB17", <<"U+0544","U+053D">>>>, <<"U+FF41", <<"U+FF21">>>>, <<"U+FF42", <<"U+FF22">>>>, <<"U+FF43", <<"U+FF23">>>>,
       <<"U+FF44", <<"U+FF24">>>>, <<"U+FF45", <<"U+FF25">>>>, <<"U+FF46", <<"U+FF26">>>>, <<"U+FF47", <<"U+FF27">>>>,
       <<"U+FF48", <<"U+FF28">>>>, <<"U+FF49", <<"U+FF29">>>>, <<"U+FF4A", <<"U+FF2A">>>>, <<"U+FF4B", <<"U+FF2B">>>>,
       <<"U+FF4C", <<"U+FF2C">>>>, <<"U+FF4D", <<"U+FF2D">>>>, <<"U+FF4E", <<"U+FF2E">>>>, <<"U+FF4F", <<"U+FF2F">>>>,
       <<"U+FF50", <<"U+FF30">>>>, <<"U+FF51", <<"U+FF31">>>>, <<"U+FF52", <<"U+FF32">>>>, <<"U+FF53", <<"U+FF33">>>>,
       <<"U+FF54", <<"U+FF34">>>>, <<"U+FF55", <<"U+FF35">>>>, <<"U+FF56", <<"U+FF36">>>>, <<"U+FF57", <<"U+FF37">>>>,
       <<"U+FF58", <<"U+FF38">>>>, <<"U+FF59", <<"U+FF39">>>>, <<"U+FF5A", <<"U+FF3A">>>>, <<"U+10428", <<"U+10400">>>>,
       <<"U+10429", <<"U+10401">>>>, <<"U+1042A", <<"U+10402">>>>, <<"U+1042B", <<"U+10403">>>>, <<"U+1042C", <<"U+10404">>>>,
       <<"U+1042D", <<"U+10405">>>>, <<"U+1042E", <<"U+10406">>>>, <<"U+1042F", <<"U+10407">>>>, <<"U+10430", <<"U+10408">>>>,
       <<"U+10431", <<"U+10409">>>>, <<"U+10432", <<"U+1040A">>>>, <<"U+10433", <<"U+1040B">>>>, <<"U+10434", <<"U+1040C">>>>,
       <<"U+10435", <<"U+1040D">>>>, <<"U+10436", <<"U+1040E">>>>, <<"U+10437", <<"U+1040F">>>>, <<"U+10438", <<"U+10410">>>>,
       <<"U+10439", <<"U+10411">>>>, <<"U+1043A", <<"U+10412">>>>, <<"U+1043B", <<"U+10413">>>>, <<"U+1043C", <<"U+10414">>>>,
       <<"U+1043D", <<"U+10415">>>>, <<"U+1043E", <<"U+10416">>>>, <<"U+1043F", <<"U+10417">>>>, <<"U+10440", <<"U+10418">>>>,
       <<"U+10441", <<"U+10419">>>>, <<"U+10442", <<"U+1041A">>>>, <<"U+10443", <<"U+1041B">>>>, <<"U+10444", <<"U+1041C">>>>,
       <<"U+10445", <<"U+1041D">>>>, <<"U+10446", <<"U+1041E">>>>, <<"U+10447", <<"U+1041F">>>>, <<"U+10448", <<"U+10420">>>>,
       <<"U+10449", <<"U+10421">>>>, <<"U+1044A", <<"U+10422">>>>, <<"U+1044B", <<"U+10423">>>>, <<"U+1044C", <<"U+10424">>>>,
       <<"U+1044D", <<"U+10425">>>>, <<"U+1044E", <<"U+10426">>>>, <<"U+1044F", <<"U+10427">>>>, <<"U+104D8", <<"U+104B0">>>>,
       <<"U+104D9", <<"U+104B1">>>>, <<"U+104DA", <<"U+104B2">>>>, <<"U+104DB", <<"U+104B3">>>>, <<"U+104DC", <<"U+104B4">>>>,
       <<"U+104DD", <<"U+104B5">>>>, <<"U+104DE", <<"U+104B6">>>>, <<"U+104DF", <<"U+104B7">>>>, <<"U+104E0", <<"U+104B8">>>>,
       <<"U+104E1", <<"U+104B9">>>>, <<"U+104E2", <<"U+104BA">>>>, <<"U+104E3", <<"U+104BB">>>>, <<"U+104E4", <<"U+104BC">>>>,
       <<"U+104E5", <<"U+104BD">>>>, <<"U+104E6", <<"U+104BE">>>>, <<"U+104E7", <<"U+104BF">>>>, <<"U+104E8", <<"U+104C0">>>>,
       <<"U+104E9", <<"U+104C1">>>>, <<"U+104EA", <<"U+104C2">>>>, <<"U+104EB", <<"U+104C3">>>>, <<"U+104EC", <<"U+104C4">>>>,
       <<"U+104ED", <<"U+104C5">>>>, <<"U+104EE", <<"U+104C6">>>>, <<"U+104EF", <<"U+104C7">>>>, <<"U+104F0", <<"U+104C8">>>>,
       <<"U+104F1", <<"U+104C9">>>>, <<"U+104F2", <<"U+104CA">>>>, <<"U+104F3", <<"U+104CB">>>>, <<"U+104F4", <<"U+104CC">>>>,
       <<"U+104F5", <<"U+104CD">>>>, <<"U+104F6", <<"U+104CE">>>>, <<"U+104F7", <<"U+104CF">>>>, <<"U+104F8", <<"U+104D0">>>>,
       <<"U+104F9", <<"U+104D1">>>>, <<"U+104FA", <<"U+104D2">>>>, <<"U+104FB", <<"U+104D3">>>>, <<"U+10597", <<"U+10570">>>>,
       <<"U+10598", <<"U+10571">>>>, <<"U+10599", <<"U+10572">>>>, <<"U+1059A", <<"U+10573">>>>, <<"U+1059B", <<"U+10574">>>>,
       <<"U+1059C", <<"U+10575">>>>, <<"U+1059D", <<"U+10576">>>>, <<"U+1059E", <<"U+10577">>>>, <<"U+1059F", <<"U+10578">>>>,
       <<"U+105A0", <<"U+10579">>>>, <<"U+105A1", <<"U+1057A">>>>, <<"U+105A3", <<"U+1057C">>>>, <<"U+105A4", <<"U+1057D">>>>,
       <<"U+105A5", <<"U+1057E">>>>, <<"U+105A6", <<"U+1057F">>>>, <<"U+105A7", <<"U+10580">>>>, <<"U+105A8", <<"U+10581">>>>,
       <<"U+105A9", <<"U+10582">>>>, <<"U+105AA", <<"U+10583">>>>, <<"U+105AB", <<"U+10584">>>>, <<"U+105AC", <<"U+10585">>>>,
       <<"U+105AD", <<"U+10586">>>>, <<"U+105AE", <<"U+10587">>>>, <<"U+105AF", <<"U+10588">>>>, <<"U+105B0", <<"U+10589">>>>,
       <<"U+105B1", <<"U+1058A">>>>, <<"U+105B3", <<"U+1058C">>>>, <<"U+105B4", <<"U+1058D">>>>, <<"U+105B5", <<"U+1058E">>>>,
       <<"U+105B6", <<"U+1058F">>>>, <<"U+105B7", <<"U+10590">>>>, <<"U+105B8", <<"U+10591">>>>, <<"U+105B9", <<"U+10592">>>>,
       <<"U+105BB", <<"U+10594">>>>, <<"U+105BC", <<"U+10595">>>>, <<"U+10CC0", <<"U+10C80">>>>, <<"U+10CC1", <<"U+10C81">>>>,
       <<"U+10CC2", <<"U+10C82">>>>, <<"U+10CC3", <<"U+10C83">>>>, <<"U+10CC4", <<"U+10C84">>>>, <<"U+10CC5", <<"U+10C85">>>>,
       <<"U+10CC6", <<"U+10C86">>>>, <<"U+10CC7", <<"U+10C87">>>>, <<"U+10CC8", <<"U+10C88">>>>, <<"U+10CC9", <<"U+10C89">>>>,
       <<"U+10CCA", <<"U+10C8A">>>>, <<"U+10CCB", <<"U+10C8B">>>>, <<"U+10CCC", <<"U+10C8C">>>>, <<"U+10CCD", <<"U+10C8D">>>>,
       <<"U+10CCE", <<"U+10C8E">>>>, <<"U+10CCF", <<"U+10C8F">>>>, <<"U+10CD0", <<"U+10C90">>>>, <<"U+10CD1", <<"U+10C91">>>>,
       <<"U+10CD2", <<"U+10C92">>>>, <<"U+10CD3", <<"U+10C93">>>>, <<"U+10CD4", <<"U+10C94">>>>, <<"U+10CD5", <<"U+10C95">>>>,
       <<"U+10CD6", <<"U+10C96">>>>, <<"U+10CD7", <<"U+10C97">>>>, <<"U+10CD8", <<"U+10C98">>>>, <<"U+10CD9", <<"U+10C99">>>>,
       <<"U+10CDA", <<"U+10C9A">>>>, <<"U+10CDB", <<"U+10C9B">>>>, <<"U+10CDC", <<"U+10C9C">>>>, <<"U+10CDD", <<"U+10C9D">>>>,
       <<"U+10CDE", <<"U+10C9E">>>>, <<"U+10CDF", <<"U+10C9F">>>>, <<"U+10CE0", <<"U+10CA0">>>>, <<"U+10CE1", <<"U+10CA1">>>>,
       <<"U+10CE2", <<"U+10CA2">>>>, <<"U+10CE3", <<"U+10CA3">>>>, <<"U+10CE4", <<"U+10CA4">>>>, <<"U+10CE5", <<"U+10CA5">>>>,
       <<"U+10CE6", <<"U+10CA6">>>>, <<"U+10CE7", <<"U+10CA7">>>>, <<"U+10CE8", <<"U+10CA8">>>>, <<"U+10CE9", <<"U+10CA9">>>>,
       <<"U+10CEA", <<"U+10CAA">>>>, <<"U+10CEB", <<"U+10CAB">>>>, <<"U+10CEC", <<"U+10CAC">>>>, <<"U+10CED", <<"U+10CAD">>>>,
       <<"U+10CEE", <<"U+10CAE">>>>, <<"U+10CEF", <<"U+10CAF">>>>, <<"U+10CF0", <<"U+10CB0">>>>, <<"U+10CF1", <<"U+10CB1">>>>,
       <<"U+10CF2", <<"U+10CB2">>>>, <<"U+10D70", <<"U+10D50">>>>, <<"U+10D71", <<"U+10D51">>>>, <<"U+10D72", <<"U+10D52">>>>,
       <<"U+10D73", <<"U+10D53">>>>, <<"U+10D74", <<"U+10D54">>>>, <<"U+10D75", <<"U+10D55">>>>, <<"U+10D76", <<"U+10D56">>>>,
       <<"U+10D77", <<"U+10D57">>>>, <<"U+10D78", <<"U+10D58">>>>, <<"U+10D79", <<"U+10D59">>>>, <<"U+10D7A", <<"U+10D5A">>>>,
       <<"U+10D7B", <<"U+10D5B">>>>, <<"U+10D7C", <<"U+10D5C">>>>, <<"U+10D7D", <<"U+10D5D">>>>, <<"U+10D7E", <<"U+10D5E">>>>,
       <<"U+10D7F", <<"U+10D5F">>>>, <<"U+10D80", <<"U+10D60">>>>, <<"U+10D81", <<"U+10D61">>>>, <<"U+10D82", <<"U+10D62">>>>,
       <<"U+10D83", <<"U+10D63">>>>, <<"U+10D84", <<"U+10D64">>>>, <<"U+10D85", <<"U+10D65">>>>, <<"U+118C0", <<"U+118A0">>>>,
       <<"U+118C1", <<"U+118A1">>>>, <<"U+118C2", <<"U+118A2">>>>, <<"U+118C3", <<"U+118A3">>>>, <<"U+118C4", <<"U+118A4">>>>,
       <<"U+118C5", <<"U+118A5">>>>, <<"U+118C6", <<"U+118A6">>>>, <<"U+118C7", <<"U+118A7">>>>, <<"U+118C8", <<"U+118A8">>>>,
       <<"U+118C9", <<"U+118A9">>>>, <<"U+118CA", <<"U+118AA">>>>, <<"U+118CB", <<"U+118AB">>>>, <<"U+118CC", <<"U+118AC">>>>,
       <<"U+118CD", <<"U+118AD">>>>, <<"U+118CE", <<"U+118AE">>>>, <<"U+118CF", <<"U+118AF">>>>, <<"U+118D0", <<"U+118B0">>>>,
       <<"U+118D1", <<"U+118B1">>>>, <<"U+118D2", <<"U+118B2">>>>, <<"U+118D3", <<"U+118B3">>>>, <<"U+118D4", <<"U+118B4">>>>,
       <<"U+118D5", <<"U+118B5">>>>, <<"U+118D6", <<"U+118B6">>>>, <<"U+118D7", <<"U+118B7">>>>, <<"U+118D8", <<"U+118B8">>>>,
       <<"U+118D9", <<"U+118B9">>>>, <<"U+118DA", <<"U+118BA">>>>, <<"U+118DB", <<"U+118BB">>>>, <<"U+118DC", <<"U+118BC">>>>,
       <<"U+118DD", <<"U+118BD">>>>, <<"U+118DE", <<"U+118BE">>>>, <<"U+118DF", <<"U+118BF">>>>, <<"U+16E60", <<"U+16E40">>>>,
       <<"U+16E61", <<"U+16E41">>>>, <<"U+16E62", <<"U+16E42">>>>, <<"U+16E63", <<"U+16E43">>>>, <<"U+16E64", <<"U+16E44">>>>,
       <<"U+16E65", <<"U+16E45">>>>, <<"U+16E66", <<"U+16E46">>>>, <<"U+16E67", <<"U+16E47">>>>, <<"U+16E68", <<"U+16E48">>>>,
       <<"U+16E69", <<"U+16E49">>>>, <<"U+16E6A", <<"U+16E4A">>>>, <<"U+16E6B", <<"U+16E4B">>>>, <<"U+16E6C", <<"U+16E4C">>>>,
       <<"U+16E6D", <<"U+16E4D">>>>, <<"U+16E6E", <<"U+16E4E">>>>, <<"U+16E6F", <<"U+16E4F">>>>, <<"U+16E70", <<"U+16E50">>>>,
       <<"U+16E71", <<"U+16E51">>>>, <<"U+16E72", <<"U+16E52">>>>, <<"U+16E73", <<"U+16E53">>>>, <<"U+16E74", <<"U+16E54">>>>,
       <<"U+16E75", <<"U+16E55">>>>, <<"U+16E76", <<"U+16E56">>>>, <<"U+16E77", <<"U+16E57">>>>, <<"U+16E78", <<"U+16E58">>>>,
       <<"U+16E79", <<"U+16E59">>>>, <<"U+16E7A", <<"U+16E5A">>>>, <<"U+16E7B", <<"U+16E5B">>>>, <<"U+16E7C", <<"U+16E5C">>>>,
       <<"U+16E7D", <<"U+16E5D">>>>, <<"U+16E7E", <<"U+16E5E">>>>, <<"U+16E7F", <<"U+16E5F">>>>, <<"U+16EBB", <<"U+16EA0">>>>,
       <<"U+16EBC", <<"U+16EA1">>>>, <<"U+16EBD", <<"U+16EA2">>>>, <<"U+16EBE", <<"U+16EA3">>>>, <<"U+16EBF", <<"U+16EA4">>>>,
       <<"U+16EC0", <<"U+16EA5">>>>, <<"U+16EC1", <<"U+16EA6">>>>, <<"U+16EC2", <<"U+16EA7">>>>, <<"U+16EC3", <<"U+16EA8">>>>,
       <<"U+16EC4", <<"U+16EA9">>>>, <<"U+16EC5", <<"U+16EAA">>>>, <<"U+16EC6", <<"U+16EAB">>>>, <<"U+16EC7", <<"U+16EAC">>>>,
       <<"U+16EC8", <<"U+16EAD">>>>, <<"U+16EC9", <<"U+16EAE">>>>, <<"U+16ECA", <<"U+16EAF">>>>, <<"U+16ECB", <<"U+16EB0">>>>,
       <<"U+16ECC", <<"U+16EB1">>>>, <<"U+16ECD", <<"U+16EB2">>>>, <<"U+16ECE", <<"U+16EB3">>>>, <<"U+16ECF", <<"U+16EB4">>>>,
       <<"U+16ED0", <<"U+16EB5">>>>, <<"U+16ED1", <<"U+16EB6">>>>, <<"U+16ED2", <<"U+16EB7">>>>, <<"U+16ED3", <<"U+16EB8">>>>,
       <<"U+1E922", <<"U+1E900">>>>, <<"U+1E923", <<"U+1E901">>>>, <<"U+1E924", <<"U+1E902">>>>, <<"U+1E925", <<"U+1E903">>>>,
       <<"U+1E926", <<"U+1E904">>>>, <<"U+1E927", <<"U+1E905">>>>, <<"U+1E928", <<"U+1E906">>>>, <<"U+1E929", <<"U+1E907">>>>,
       <<"U+1E92A", <<"U+1E908">>>>, <<"U+1E92B", <<"U+1E909">>>>, <<"U+1E92C", <<"U+1E90A">>>>, <<"U+1E92D", <<"U+1E90B">>>>,
       <<"U+1E92E", <<"U+1E90C">>>>, <<"U+1E92F", <<"U+1E90D">>>>, <<"U+1E930", <<"U+1E90E">>>>, <<"U+1E931", <<"U+1E90F">>>>,
       <<"U+1E932", <<"U+1E910">>>>, <<"U+1E933", <<"U+1E911">>>>, <<"U+1E934", <<"U+1E912">>>>, <<"U+1E935", <<"U+1E913">>>>,
       <<"U+1E936", <<"U+1E914">>>>, <<"U+1E937", <<"U+1E915">>>>, <<"U+1E938", <<"U+1E916">>>>, <<"U+1E939", <<"U+1E917">>>>,
       <<"U+1E93A", <<"U+1E918">>>>, <<"U+1E93B", <<"U+1E919">>>>, <<"U+1E93C", <<"U+1E91A">>>>, <<"U+1E93D", <<"U+1E91B">>>>,
       <<"U+1E93E", <<"U+1E91C">>>>, <<"U+1E93F", <<"U+1E91D">>>>, <<"U+1E940", <<"U+1E91E">>>>, <<"U+1E941", <<"U+1E91F">>>>,
       <<"U+1E942", <<"U+1E920">>>>, <<"U+1E943", <<"U+1E921">>>> >>

\* the letters outside ASCII that toLowerCase changes, the capital sigma apart
LowerCaseTable ==
    << <<"U+00C0", <<"U+00E0">>>>, <<"U+00C1", <<"U+00E1">>>>, <<"U+00C2", <<"U+00E2">>>>, <<"U+00C3", <<"U+00E3">>>>,
       <<"U+00C4", <<"U+00E4">>>>, <<"U+00C5", <<"U+00E5">>>>, <<"U+00C6", <<"U+00E6">>>>, <<"U+00C7", <<"U+00E7">>>>,
       <<"U+00C8", <<"U+00E8">>>>, <<"U+00C9", <<"U+00E9">>>>, <<"U+00CA", <<"U+00EA">>>>, <<"U+00CB", <<"U+00EB">>>>,
       <<"U+00CC", <<"U+00EC">>>>, <<"U+00CD", <<"U+00ED">>>>, <<"U+00CE", <<"U+00EE">>>>, <<"U+00CF", <<"U+00EF">>>>,
       <<"U+00D0", <<"U+00F0">>>>, <<"U+00D1", <<"U+00F1">>>>, <<"U+00D2", <<"U+00F2">>>>, <<"U+00D3", <<"U+00F3">>>>,
       <<"U+00D4", <<"U+00F4">>>>, <<"U+00D5", <<"U+00F5">>>>, <<"U+00D6", <<"U+00F6">>>>, <<"U+00D8", <<"U+00F8">>>>,
       <<"U+00D9", <<"U+00F9">>>>, <<"U+00DA", <<"U+00FA">>>>, <<"U+00DB", <<"U+00FB">>>>, <<"U+00DC", <<"U+00FC">>>>,
       <<"U+00DD", <<"U+00FD">>>>, <<"U+00DE", <<"U+00FE">>>>, <<"U+0100", <<"U+0101">>>>, <<"U+0102", <<"U+0103">>>>,
       <<"U+0104", <<"U+0105">>>>, <<"U+0106", <<"U+0107">>>>, <<"U+0108", <<"U+0109">>>>, <<"U+010A", <<"U+010B">>>>,
       <<"U+010C", <<"U+010D">>>>, <<"U+010E", <<"U+010F">>>>, <<"U+0110", <<"U+0111">>>>, <<"U+0112", <<"U+0113">>>>,
       <<"U+0114", <<"U+0115">>>>, <<"U+0116", <<"U+0117">>>>, <<"U+0118", <<"U+0119">>>>, <<"U+011A", <<"U+011B">>>>,
       <<"U+011C", <<"U+011D">>>>, <<"U+011E", <<"U+011F">>>>, <<"U+0120", <<"U+0121">>>>, <<"U+0122", <<"U+0123">>>>,
       <<"U+0124", <<"U+0125">>>>, <<"U+0126", <<"U+0127">>>>, <<"U+0128", <<"U+0129">>>>, <<"U+012A", <<"U+012B">>>>,
       <<"U+012C", <<"U+012D">>>>, <<"U+012E", <<"U+012F">>>>, <<"U+0130", <<"i","U+0307">>>>, <<"U+0132", <<"U+0133">>>>,
       <<"U+0134", <<"U+0135">>>>, <<"U+0136", <<"U+0137">>>>, <<"U+0139", <<"U+013A">>>>, <<"U+013B", <<"U+013C">>>>,
       <<"U+013D", <<"U+013E">>>>, <<"U+013F", <<"U+0140">>>>, <<"U+0141", <<"U+0142">>>>, <<"U+0143", <<"U+0144">>>>,
       <<"U+0145", <<"U+0146">>>>, <<"U+0147", <<"U+0148">>>>, <<"U+014A", <<"U+014B">>>>, <<"U+014C", <<"U+014D">>>>,
       <<"U+014E", <<"U+014F">>>>, <<"U+0150", <<"U+0151">>>>, <<"U+0152", <<"U+0153">>>>, <<"U+0154", <<"U+0155">>>>,
       <<"U+0156", <<"U+0157">>>>, <<"U+0158", <<"U+0159">>>>, <<"U+015A", <<"U+015B">>>>, <<"U+015C", <<"U+015D">>>>,
       <<"U+015E", <<"U+015F">>>>, <<"U+0160", <<"U+0161">>>>, <<"U+0162", <<"U+0163">>>>, <<"U+0164", <<"U+0165">>>>,
       <<"U+0166", <<"U+0167">>>>, <<"U+0168", <<"U+0169">>>>, <<"U+016A", <<"U+016B">>>>, <<"U+016C", <<"U+016D">>>>,
       <<"U+016E", <<"U+016F">>>>, <<"U+0170", <<"U+0171">>>>, <<"U+0172", <<"U+0173">>>>, <<"U+0174", <<"U+0175">>>>,
       <<"U+0176", <<"U+0177">>>>, <<"U+0178", <<"U+00FF">>>>, <<"U+0179", <<"U+017A">>>>, <<"U+017B", <<"U+017C">>>>,
       <<"U+017D", <<"U+017E">>>>, <<"U+0181", <<"U+0253">>>>, <<"U+0182", <<"U+0183">>>>, <<"U+0184", <<"U+0185">>>>,
       <<"U+0186", <<"U+0254">>>>, <<"U+0187", <<"U+0188">>>>, <<"U+0189", <<"U+0256">>>>, <<"U+018A", <<"U+0257">>>>,
       <<"U+018B", <<"U+018C">>>>, <<"U+018E", <<"U+01DD">>>>, <<"U+018F", <<"U+0259">>>>, <<"U+0190", <<"U+025B">>>>,
       <<"U+0191", <<"U+0192">>>>, <<"U+0193", <<"U+0260">>>>, <<"U+0194", <<"U+0263">>>>, <<"U+0196", <<"U+0269">>>>,
       <<"U+0197", <<"U+0268">>>>, <<"U+0198", <<"U+0199">>>>, <<"U+019C", <<"U+026F">>>>, <<"U+019D", <<"U+0272">>>>,
       <<"U+019F", <<"U+0275">>>>, <<"U+01A0", <<"U+01A1">>>>, <<"U+01A2", <<"U+01A3">>>>, <<"U+01A4", <<"U+01A5">>>>,
       <<"U+01A6", <<"U+0280">>>>, <<"U+01A7", <<"U+01A8">>>>, <<"U+01A9", <<"U+0283">>>>, <<"U+01AC", <<"U+01AD">>>>,
       <<"U+01AE", <<"U+0288">>>>, <<"U+01AF", <<"U+01B0">>>>, <<"U+01B1", <<"U+028A">>>>, <<"U+01B2", <<"U+028B">>>>,
       <<"U+01B3", <<"U+01B4">>>>, <<"U+01B5", <<"U+01B6">>>>, <<"U+01B7", <<"U+0292">>>>, <<"U+01B8", <<"U+01B9">>>>,
       <<"U+01BC", <<"U+01BD">>>>, <<"U+01C4", <<"U+01C6">>>>, <<"U+01C5", <<"U+01C6">>>>, <<"U+01C7", <<"U+01C9">>>>,
       <<"U+01C8", <<"U+01C9">>>>, <<"U+01CA", <<"U+01CC">>>>, <<"U+01CB", <<"U+01CC">>>>, <<"U+01CD", <<"U+01CE">>>>,
       <<"U+01CF", <<"U+01D0">>>>, <<"U+01D1", <<"U+01D2">>>>, <<"U+01D3", <<"U+01D4">>>>, <<"U+01D5", <<"U+01D6">>>>,
       <<"U+01D7", <<"U+01D8">>>>, <<"U+01D9", <<"U+01DA">>>>, <<"U+01DB", <<"U+01DC">>>>, <<"U+01DE", <<"U+01DF">>>>,
       <<"U+01E0", <<"U+01E1">>>>, <<"U+01E2", <<"U+01E3">>>>, <<"U+01E4", <<"U+01E5">>>>, <<"U+01E6", <<"U+01E7">>>>,
       <<"U+01E8", <<"U+01E9">>>>, <<"U+01EA", <<"U+01EB">>>>, <<"U+01EC", <<"U+01ED">>>>, <<"U+01EE", <<"U+01EF">>>>,
       <<"U+01F1", <<"U+01F3">>>>, <<"U+01F2", <<"U+01F3">>>>, <<"U+01F4", <<"U+01F5">>>>, <<"U+01F6", <<"U+0195">>>>,
       <<"U+01F7", <<"U+01BF">>>>, <<"U+01F8", <<"U+01F9">>>>, <<"U+01FA", <<"U+01FB">>>>, <<"U+01FC", <<"U+01FD">>>>,
       <<"U+01FE", <<"U+01FF">>>>, <<"U+0200", <<"U+0201">>>>, <<"U+0202", <<"U+0203">>>>, <<"U+0204", <<"U+0205">>>>,
       <<"U+0206", <<"U+0207">>>>, <<"U+0208", <<"U+0209">>>>, <<"U+020A", <<"U+020B">>>>, <<"U+020C", <<"U+020D">>>>,
       <<"U+020E", <<"U+020F">>>>, <<"U+0210", <<"U+0211">>>>, <<"U+0212", <<"U+0213">>>>, <<"U+0214", <<"U+0215">>>>,
       <<"U+0216", <<"U+0217">>>>, <<"U+0218", <<"U+0219">>>>, <<"U+021A", <<"U+021B">>>>, <<"U+021C", <<"U+021D">>>>,
       <<"U+021E", <<"U+021F">>>>, <<"U+0220", <<"U+019E">>>>, <<"U+0222", <<"U+0223">>>>, <<"U+0224", <<"U+0225">>>>,
       <<"U+0226", <<"U+0227">>>>, <<"U+0228", <<"U+0229">>>>, <<"U+022A", <<"U+022B">>>>, <<"U+022C", <<"U+022D">>>>,
       <<"U+022E", <<"U+022F">>>>, <<"U+0230", <<"U+0231">>>>, <<"U+0232", <<"U+0233">>>>, <<"U+023A", <<"U+2C65">>>>,
       <<"U+023B", <<"U+023C">>>>, <<"U+023D", <<"U+019A">>>>, <<"U+023E", <<"U+2C66">>>>, <<"U+0241", <<"U+0242">>>>,
       <<"U+0243", <<"U+0180">>>>, <<"U+0244", <<"U+0289">>>>, <<"U+0245", <<"U+028C">>>>, <<"U+0246", <<"U+0247">>>>,
       <<"U+0248", <<"U+0249">>>>, <<"U+024A", <<"U+024B">>>>, <<"U+024C", <<"U+024D">>>>, <<"U+024E", <<"U+024F">>>>,
       <<"U+0370", <<"U+0371">>>>, <<"U+0372", <<"U+0373">>>>, <<"U+0376", <<"U+0377">>>>, <<"U+037F", <<"U+03F3">>>>,
       <<"U+0386", <<"U+03AC">>>>, <<"U+0388", <<"U+03AD">>>>, <<"U+0389", <<"U+03AE">>>>, <<"U+038A", <<"U+03AF">>>>,
       <<"U+038C", <<"U+03CC">>>>, <<"U+038E", <<"U+03CD">>>>, <<"U+038F", <<"U+03CE">>>>, <<"U+0391", <<"U+03B1">>>>,
       <<"U+0392", <<"U+03B2">>>>, <<"U+0393", <<"U+03B3">>>>, <<"U+0394", <<"U+03B4">>>>, <<"U+0395", <<"U+03B5">>>>,
       <<"U+0396", <<"U+03B6">>>>, <<"U+0397", <<"U+03B7">>>>, <<"U+0398", <<"U+03B8">>>>, <<"U+0399", <<"U+03B9">>>>,
       <<"U+039A", <<"U+03BA">>>>, <<"U+039B", <<"U+03BB">>>>, <<"U+039C", <<"U+03BC">>>>, <<"U+039D", <<"U+03BD">>>>,
       <<"U+039E", <<"U+03BE">>>>, <<"U+039F", <<"U+03BF">>>>, <<"U+03A0", <<"U+03C0">>>>, <<"U+03A1", <<"U+03C1">>>>,
       <<"U+03A4", <<"U+03C4">>>>, <<"U+03A5", <<"U+03C5">>>>, <<"U+03A6", <<"U+03C6">>>>, <<"U+03A7", <<"U+03C7">>>>,
       <<"U+03A8", <<"U+03C8">>>>, <<"U+03A9", <<"U+03C9">>>>, <<"U+03AA", <<"U+03CA">>>>, <<"U+03AB", <<"U+03CB">>>>,
       <<"U+03CF", <<"U+03D7">>>>, <<"U+03D8", <<"U+03D9">>>>, <<"U+03DA", <<"U+03DB">>>>, <<"U+03DC", <<"U+03DD">>>>,
       <<"U+03DE", <<"U+03DF">>>>, <<"U+03E0", <<"U+03E1">>>>, <<"U+03E2", <<"U+03E3">>>>, <<"U+03E4", <<"U+03E5">>>>,
       <<"U+03E6", <<"U+03E7">>>>, <<"U+03E8", <<"U+03E9">>>>, <<"U+03EA", <<"U+03EB">>>>, <<"U+03EC", <<"U+03ED">>>>,
       <<"U+03EE", <<"U+03EF">>>>, <<"U+03F4", <<"U+03B8">>>>, <<"U+03F7", <<"U+03F8">>>>, <<"U+03F9", <<"U+03F2">>>>,
       <<"U+03FA", <<"U+03FB">>>>, <<"U+03FD", <<"U+037B">>>>, <<"U+03FE", <<"U+037C">>>>, <<"U+03FF", <<"U+037D">>>>,
       <<"U+0400", <<"U+0450">>>>, <<"U+0401", <<"U+0451">>>>, <<"U+0402", <<"U+0452">>>>, <<"U+0403", <<"U+0453">>>>,
       <<"U+0404", <<"U+0454">>>>, <<"U+0405", <<"U+0455">>>>, <<"U+0406", <<"U+0456">>>>, <<"U+0407", <<"U+0457">>>>,
       <<"U+0408", <<"U+0458">>>>, <<"U+0409", <<"U+0459">>>>, <<"U+040A", <<"U+045A">>>>, <<"U+040B", <<"U+045B">>>>,
       <<"U+040C", <<"U+045C">>>>, <<"U+040D", <<"U+045D">>>>, <<"U+040E", <<"U+045E">>>>, <<"U+040F", <<"U+045F">>>>,
       <<"U+0410", <<"U+0430">>>>, <<"U+0411", <<"U+0431">>>>, <<"U+0412", <<"U+0432">>>>, <<"U+0413", <<"U+0433">>>>,
       <<"U+0414", <<"U+0434">>>>, <<"U+0415", <<"U+0435">>>>, <<"U+0416", <<"U+0436">>>>, <<"U+0417", <<"U+0437">>>>,
       <<"U+0418", <<"U+0438">>>>, <<"U+0419", <<"U+0439">>>>, <<"U+041A", <<"U+043A">>>>, <<"U+041B", <<"U+043B">>>>,
       <<"U+041C", <<"U+043C">>>>, <<"U+041D", <<"U+043D">>>>, <<"U+041E", <<"U+043E">>>>, <<"U+041F", <<"U+043F">>>>,
       <<"U+0420", <<"U+0440">>>>, <<"U+0421", <<"U+0441">>>>, <<"U+0422", <<"U+0442">>>>, <<"U+0423", <<"U+0443">>>>,
       <<"U+0424", <<"U+0444">>>>, <<"U+0425", <<"U+0445">>>>, <<"U+0426", <<"U+0446">>>>, <<"U+0427", <<"U+0447">>>>,
       <<"U+0428", <<"U+0448">>>>, <<"U+0429", <<"U+0449">>>>, <<"U+042A", <<"U+044A">>>>, <<"U+042B", <<"U+044B">>>>,
       <<"U+042C", <<"U+044C">>>>, <<"U+042D", <<"U+044D">>>>, <<"U+042E", <<"U+044E">>>>, <<"U+042F", <<"U+044F">>>>,
       <<"U+0460", <<"U+0461">>>>, <<"U+0462", <<"U+0463">>>>, <<"U+0464", <<"U+0465">>>>, <<"U+0466", <<"U+0467">>>>,
       <<"U+0468", <<"U+0469">>>>, <<"U+046A", <<"U+046B">>>>, <<"U+046C", <<"U+046D">>>>, <<"U+046E", <<"U+046F">>>>,
       <<"U+0470", <<"U+0471">>>>, <<"U+0472", <<"U+0473">>>>, <<"U+0474", <<"U+0475">>>>, <<"U+0476", <<"U+0477">>>>,
       <<"U+0478", <<"U+0479">>>>, <<"U+047A", <<"U+047B">>>>, <<"U+047C", <<"U+047D">>>>, <<"U+047E", <<"U+047F">>>>,
       <<"U+0480", <<"U+0481">>>>, <<"U+048A", <<"U+048B">>>>, <<"U+048C", <<"U+048D">>>>, <<"U+048E", <<"U+048F">>>>,
       <<"U+0490", <<"U+0491">>>>, <<"U+0492", <<"U+0493">>>>, <<"U+0494", <<"U+0495">>>>, <<"U+0496", <<"U+0497">>>>,
       <<"U+0498", <<"U+0499">>>>, <<"U+049A", <<"U+049B">>>>, <<"U+049C", <<"U+049D">>>>, <<"U+049E", <<"U+049F">>>>,
       <<"U+04A0", <<"U+04A1">>>>, <<"U+04A2", <<"U+04A3">>>>, <<"U+04A4", <<"U+04A5">>>>, <<"U+04A6", <<"U+04A7">>>>,
       <<"U+04A8", <<"U+04A9">>>>, <<"U+04AA", <<"U+04AB">>>>, <<"U+04AC", <<"U+04AD">>>>, <<"U+04AE", <<"U+04AF">>>>,
       <<"U+04B0", <<"U+04B1">>>>, <<"U+04B2", <<"U+04B3">>>>, <<"U+04B4", <<"U+04B5">>>>, <<"U+04B6", <<"U+04B7">>>>,
       <<"U+04B8", <<"U+04B9">>>>, <<"U+04BA", <<"U+04BB">>>>, <<"U+04BC", <<"U+04BD">>>>, <<"U+04BE", <<"U+04BF">>>>,
       <<"U+04C0", <<"U+04CF">>>>, <<"U+04C1", <<"U+04C2">>>>, <<"U+04C3", <<"U+04C4">>>>, <<"U+04C5", <<"U+04C6">>>>,
       <<"U+04C7", <<"U+04C8">>>>, <<"U+04C9", <<"U+04CA">>>>, <<"U+04CB", <<"U+04CC">>>>, <<"U+04CD", <<"U+04CE">>>>,
       <<"U+04D0", <<"U+04D1">>>>, <<"U+04D2", <<"U+04D3">>>>, <<"U+04D4", <<"U+04D5">>>>, <<"U+04D6", <<"U+04D7">>>>,
       <<"U+04D8", <<"U+04D9">>>>, <<"U+04DA", <<"U+04DB">>>>, <<"U+04DC", <<"U+04DD">>>>, <<"U+04DE", <<"U+04DF">>>>,
       <<"U+04E0", <<"U+04E1">>>>, <<"U+04E2", <<"U+04E3">>>>, <<"U+04E4", <<"U+04E5">>>>, <<"U+04E6", <<"U+04E7">>>>,
       <<"U+04E8", <<"U+04E9">>>>, <<"U+04EA", <<"U+04EB">>>>, <<"U+04EC", <<"U+04ED">>>>, <<"U+04EE", <<"U+04EF">>>>,
       <<"U+04F0", <<"U+04F1">>>>, <<"U+04F2", <<"U+04F3">>>>, <<"U+04F4", <<"U+04F5">>>>, <<"U+04F6", <<"U+04F7">>>>,
       <<"U+04F8", <<"U+04F9">>>>, <<"U+04FA", <<"U+04FB">>>>, <<"U+04FC", <<"U+04FD">>>>, <<"U+04FE", <<"U+04FF">>>>,
       <<"U+0500", <<"U+0501">>>>, <<"U+0502", <<"U+0503">>>>, <<"U+0504", <<"U+0505">>>>, <<"U+0506", <<"U+0507">>>>,
       <<"U+0508", <<"U+0509">>>>, <<"U+050A", <<"U+050B">>>>, <<"U+050C", <<"U+050D">>>>, <<"U+050E", <<"U+050F">>>>,
       <<"U+0510", <<"U+0511">>>>, <<"U+0512", <<"U+0513">>>>, <<"U+0514", <<"U+0515">>>>, <<"U+0516", <<"U+0517">>>>,
       <<"U+0518", <<"U+0519">>>>, <<"U+051A", <<"U+051B">>>>, <<"U+051C", <<"U+051D">>>>, <<"U+051E", <<"U+051F">>>>,
       <<"U+0520", <<"U+0521">>>>, <<"U+0522", <<"U+0523">>>>, <<"U+0524", <<"U+0525">>>>, <<"U+0526", <<"U+0527">>>>,
       <<"U+0528", <<"U+0529">>>>, <<"U+052A", <<"U+052B">>>>, <<"U+052C", <<"U+052D">>>>, <<"U+052E", <<"U+052F">>>>,
       <<"U+0531", <<"U+0561">>>>, <<"U+0532", <<"U+0562">>>>, <<"U+0533", <<"U+0563">>>>, <<"U+0534", <<"U+0564">>>>,
       <<"U+0535", <<"U+0565">>>>, <<"U+0536", <<"U+0566">>>>, <<"U+0537", <<"U+0567">>>>, <<"U+0538", <<"U+0568">>>>,
       <<"U+0539", <<"U+0569">>>>, <<"U+053A", <<"U+056A">>>>, <<"U+053B", <<"U+056B">>>>, <<"U+053C", <<"U+056C">>>>,
       <<"U+053D", <<"U+056D">>>>, <<"U+053E", <<"U+056E">>>>, <<"U+053F", <<"U+056F">>>>, <<"U+0540", <<"U+0570">>>>,
       <<"U+0541", <<"U+0571">>>>, <<"U+0542", <<"U+0572">>>>, <<"U+0543", <<"U+0573">>>>, <<"U+0544", <<"U+0574">>>>,
       <<"U+0545", <<"U+0575">>>>, <<"U+0546", <<"U+0576">>>>, <<"U+0547", <<"U+0577">>>>, <<"U+0548", <<"U+0578">>>>,
       <<"U+0549", <<"U+0579">>>>, <<"U+054A", <<"U+057A">>>>, <<"U+054B", <<"U+057B">>>>, <<"U+054C", <<"U+057C">>>>,
       <<"U+054D", <<"U+057D">>>>, <<"U+054E", <<"U+057E">>>>, <<"U+054F", <<"U+057F">>>>, <<"U+0550", <<"U+0580">>>>,
       <<"U+0551", <<"U+0581">>>>, <<"U+0552", <<"U+0582">>>>, <<"U+0553", <<"U+0583">>>>, <<"U+0554", <<"U+0584">>>>,
       <<"U+0555", <<"U+0585">>>>, <<"U+0556", <<"U+0586">>>>, <<"U+10A0", <<"U+2D00">>>>, <<"U+10A1", <<"U+2D01">>>>,
       <<"U+10A2", <<"U+2D02">>>>, <<"U+10A3", <<"U+2D03">>>>, <<"U+10A4", <<"U+2D04">>>>, <<"U+10A5", <<"U+2D05">>>>,
       <<"U+10A6", <<"U+2D06">>>>, <<"U+10A7", <<"U+2D07">>>>, <<"U+10A8", <<"U+2D08">>>>, <<"U+10A9", <<"U+2D09">>>>,
       <<"U+10AA", <<"U+2D0A">>>>, <<"U+10AB", <<"U+2D0B">>>>, <<"U+10AC", <<"U+2D0C">>>>, <<"U+10AD", <<"U+2D0D">>>>,
       <<"U+10AE", <<"U+2D0E">>>>, <<"U+10AF", <<"U+2D0F">>>>, <<"U+10B0", <<"U+2D10">>>>, <<"U+10B1", <<"U+2D11">>>>,
       <<"U+10B2", <<"U+2D12">>>>, <<"U+10B3", <<"U+2D13">>>>, <<"U+10B4", <<"U+2D14">>>>, <<"U+10B5", <<"U+2D15">>>>,
       <<"U+10B6", <<"U+2D16">>>>, <<"U+10B7", <<"U+2D17">>>>, <<"U+10B8", <<"U+2D18">>>>, <<"U+10B9", <<"U+2D19">>>>,
       <<"U+10BA", <<"U+2D1A">>>>, <<"U+10BB", <<"U+2D1B">>>>, <<"U+10BC", <<"U+2D1C">>>>, <<"U+10BD", <<"U+2D1D">>>>,
       <<"U+10BE", <<"U+2D1E">>>>, <<"U+10BF", <<"U+2D1F">>>>, <<"U+10C0", <<"U+2D20">>>>, <<"U+10C1", <<"U+2D21">>>>,
       <<"U+10C2", <<"U+2D22">>>>, <<"U+10C3", <<"U+2D23">>>>, <<"U+10C4", <<"U+2D24">>>>, <<"U+10C5", <<"U+2D25">>>>,
       <<"U+10C7", <<"U+2D27">>>>, <<"U+10CD", <<"U+2D2D">>>>, <<"U+13A0", <<"U+AB70">>>>, <<"U+13A1", <<"U+AB71">>>>,
       <<"U+13A2", <<"U+AB72">>>>, <<"U+13A3", <<"U+AB73">>>>, <<"U+13A4", <<"U+AB74">>>>, <<"U+13A5", <<"U+AB75">>>>,
       <<"U+13A6", <<"U+AB76">>>>, <<"U+13A7", <<"U+AB77">>>>, <<"U+13A8", <<"U+AB78">>>>, <<"U+13A9", <<"U+AB79">>>>,
       <<"U+13AA", <<"U+AB7A">>>>, <<"U+13AB", <<"U+AB7B">>>>, <<"U+13AC", <<"U+AB7C">>>>, <<"U+13AD", <<"U+AB7D">>>>,
       <<"U+13AE", <<"U+AB7E">>>>, <<"U+13AF", <<"U+AB7F">>>>, <<"U+13B0", <<"U+AB80">>>>, <<"U+13B1", <<"U+AB81">>>>,
       <<"U+13B2", <<"U+AB82">>>>, <<"U+13B3", <<"U+AB83">>>>, <<"U+13B4", <<"U+AB84">>>>, <<"U+13B5", <<"U+AB85">>>>,
       <<"U+13B6", <<"U+AB86">>>>, <<"U+13B7", <<"U+AB87">>>>, <<"U+13B8", <<"U+AB88">>>>, <<"U+13B9", <<"U+AB89">>>>,
       <<"U+13BA", <<"U+AB8A">>>>, <<"U+13BB", <<"U+AB8B">>>>, <<"U+13BC", <<"U+AB8C">>>>, <<"U+13BD", <<"U+AB8D">>>>,
       <<"U+13BE", <<"U+AB8E">>>>, <<"U+13BF", <<"U+AB8F">>>>, <<"U+13C0", <<"U+AB90">>>>, <<"U+13C1", <<"U+AB91">>>>,
       <<"U+13C2", <<"U+AB92">>>>, <<"U+13C3", <<"U+AB93">>>>, <<"U+13C4", <<"U+AB94">>>>, <<"U+13C5", <<"U+AB95">>>>,
       <<"U+13C6", <<"U+AB96">>>>, <<"U+13C7", <<"U+AB97">>>>, <<"U+13C8", <<"U+AB98">>>>, <<"U+13C9", <<"U+AB99">>>>,
       <<"U+13CA", <<"U+AB9A">>>>, <<"U+13CB", <<"U+AB9B">>>>, <<"U+13CC", <<"U+AB9C">>>>, <<"U+13CD", <<"U+AB9D">>>>,
       <<"U+13CE", <<"U+AB9E">>>>, <<"U+13CF", <<"U+AB9F">>>>, <<"U+13D0", <<"U+ABA0">>>>, <<"U+13D1", <<"U+ABA1">>>>,
       <<"U+13D2", <<"U+ABA2">>>>, <<"U+13D3", <<"U+ABA3">>>>, <<"U+13D4", <<"U+ABA4">>>>, <<"U+13D5", <<"U+ABA5">>>>,
       <<"U+13D6", <<"U+ABA6">>>>, <<"U+13D7", <<"U+ABA7">>>>, <<"U+13D8", <<"U+ABA8">>>>, <<"U+13D9", <<"U+ABA9">>>>,
       <<"U+13DA", <<"U+ABAA">>>>, <<"U+13DB", <<"U+ABAB">>>>, <<"U+13DC", <<"U+ABAC">>>>, <<"U+13DD", <<"U+ABAD">>>>,
       <<"U+13DE", <<"U+ABAE">>>>, <<"U+13DF", <<"U+ABAF">>>>, <<"U+13E0", <<"U+ABB0">>>>, <<"U+13E1", <<"U+ABB1">>>>,
       <<"U+13E2", <<"U+ABB2">>>>, <<"U+13E3", <<"U+ABB3">>>>, <<"U+13E4", <<"U+ABB4">>>>, <<"U+13E5", <<"U+ABB5">>>>,
       <<"U+13E6", <<"U+ABB6">>>>, <<"U+13E7", <<"U+ABB7">>>>, <<"U+13E8", <<"U+ABB8">>>>, <<"U+13E9", <<"U+ABB9">>>>,
       <<"U+13EA", <<"U+ABBA">>>>, <<"U+13EB", <<"U+ABBB">>>>, <<"U+13EC", <<"U+ABBC">>>>, <<"U+13ED", <<"U+ABBD">>>>,
       <<"U+13EE", <<"U+ABBE">>>>, <<"U+13EF", <<"U+ABBF">>>>, <<"U+13F0", <<"U+13F8">>>>, <<"U+13F1", <<"U+13F9">>>>,
       <<"U+13F2", <<"U+13FA">>>>, <<"U+13F3", <<"U+13FB">>>>, <<"U+13F4", <<"U+13FC">>>>, <<"U+13F5", <<"U+13FD">>>>,
       <<"U+1C89", <<"U+1C8A">>>>, <<"U+1C90", <<"U+10D0">>>>, <<"U+1C91", <<"U+10D1">>>>, <<"U+1C92", <<"U+10D2">>>>,
       <<"U+1C93", <<"U+10D3">>>>, <<"U+1C94", <<"U+10D4">>>>, <<"U+1C95", <<"U+10D5">>>>, <<"U+1C96", <<"U+10D6">>>>,
       <<"U+1C97", <<"U+10D7">>>>, <<"U+1C98", <<"U+10D8">>>>, <<"U+1C99", <<"U+10D9">>>>, <<"U+1C9A", <<"U+10DA">>>>,
       <<"U+1C9B", <<"U+10DB">>>>, <<"U+1C9C", <<"U+10DC">>>>, <<"U+1C9D", <<"U+10DD">>>>, <<"U+1C9E", <<"U+10DE">>>>,
       <<"U+1C9F", <<"U+10DF">>>>, <<"U+1CA0", <<"U+10E0">>>>, <<"U+1CA1", <<"U+10E1">>>>, <<"U+1CA2", <<"U+10E2">>>>,
       <<"U+1CA3", <<"U+10E3">>>>, <<"U+1CA4", <<"U+10E4">>>>, <<"U+1CA5", <<"U+10E5">>>>, <<"U+1CA6", <<"U+10E6">>>>,
       <<"U+1CA7", <<"U+10E7">>>>, <<"U+1CA8", <<"U+10E8">>>>, <<"U+1CA9", <<"U+10E9">>>>, <<"U+1CAA", <<"U+10EA">>>>,
       <<"U+1CAB", <<"U+10EB">>>>, <<"U+1CAC", <<"U+10EC">>>>, <<"U+1CAD", <<"U+10ED">>>>, <<"U+1CAE", <<"U+10EE">>>>,
       <<"U+1CAF", <<"U+10EF">>>>, <<"U+1CB0", <<"U+10F0">>>>, <<"U+1CB1", <<"U+10F1">>>>, <<"U+1CB2", <<"U+10F2">>>>,
       <<"U+1CB3", <<"U+10F3">>>>, <<"U+1CB4", <<"U+10F4">>>>, <<"U+1CB5", <<"U+10F5">>>>, <<"U+1CB6", <<"U+10F6">>>>,
       <<"U+1CB7", <<"U+10F7">>>>, <<"U+1CB8", <<"U+10F8">>>>, <<"U+1CB9", <<"U+10F9">>>>, <<"U+1CBA", <<"U+10FA">>>>,
       <<"U+1CBD", <<"U+10FD">>>>, <<"U+1CBE", <<"U+10FE">>>>, <<"U+1CBF", <<"U+10FF">>>>, <<"U+1E00", <<"U+1E01">>>>,
       <<"U+1E02", <<"U+1E03">>>>, <<"U+1E04", <<"U+1E05">>>>, <<"U+1E06", <<"U+1E07">>>>, <<"U+1E08", <<"U+1E09">>>>,
       <<"U+1E0A", <<"U+1E0B">>>>, <<"U+1E0C", <<"U+1E0D">>>>, <<"U+1E0E", <<"U+1E0F">>>>, <<"U+1E10", <<"U+1E11">>>>,
       <<"U+1E12", <<"U+1E13">>>>, <<"U+1E14", <<"U+1E15">>>>, <<"U+1E16", <<"U+1E17">>>>, <<"U+1E18", <<"U+1E19">>>>,
       <<"U+1E1A", <<"U+1E1B">>>>, <<"U+1E1C", <<"U+1E1D">>>>, <<"U+1E1E", <<"U+1E1F">>>>, <<"U+1E20", <<"U+1E21">>>>,
       <<"U+1E22", <<"U+1E23">>>>, <<"U+1E24", <<"U+1E25">>>>, <<"U+1E26", <<"U+1E27">>>>, <<"U+1E28", <<"U+1E29">>>>,
       <<"U+1E2A", <<"U+1E2B">>>>, <<"U+1E2C", <<"U+1E2D">>>>, <<"U+1E2E", <<"U+1E2F">>>>, <<"U+1E30", <<"U+1E31">>>>,
       <<"U+1E32", <<"U+1E33">>>>, <<"U+1E34", <<"U+1E35">>>>, <<"U+1E36", <<"U+1E37">>>>, <<"U+1E38", <<"U+1E39">>>>,
       <<"U+1E3A", <<"U+1E3B">>>>, <<"U+1E3C", <<"U+1E3D">>>>, <<"U+1E3E", <<"U+1E3F">>>>, <<"U+1E40", <<"U+1E41">>>>,
       <<"U+1E42", <<"U+1E43">>>>, <<"U+1E44", <<"U+1E45">>>>, <<"U+1E46", <<"U+1E47">>>>, <<"U+1E48", <<"U+1E49">>>>,
       <<"U+1E4A", <<"U+1E4B">>>>, <<"U+1E4C", <<"U+1E4D">>>>, <<"U+1E4E", <<"U+1E4F">>>>, <<"U+1E50", <<"U+1E51">>>>,
       <<"U+1E52", <<"U+1E53">>>>, <<"U+1E54", <<"U+1E55">>>>, <<"U+1E56", <<"U+1E57">>>>, <<"U+1E58", <<"U+1E59">>>>,
       <<"U+1E5A", <<"U+1E5B">>>>, <<"U+1E5C", <<"U+1E5D">>>>, <<"U+1E5E", <<"U+1E5F">>>>, <<"U+1E60", <<"U+1E61">>>>,
       <<"U+1E62", <<"U+1E63">>>>, <<"U+1E64", <<"U+1E65">>>>, <<"U+1E66", <<"U+1E67">>>>, <<"U+1E68", <<"U+1E69">>>>,
       <<"U+1E6A", <<"U+1E6B">>>>, <<"U+1E6C", <<"U+1E6D">>>>, <<"U+1E6E", <<"U+1E6F">>>>, <<"U+1E70", <<"U+1E71">>>>,
       <<"U+1E72", <<"U+1E73">>>>, <<"U+1E74", <<"U+1E75">>>>, <<"U+1E76", <<"U+1E77">>>>, <<"U+1E78", <<"U+1E79">>>>,
       <<"U+1E7A", <<"U+1E7B">>>>, <<"U+1E7C", <<"U+1E7D">>>>, <<"U+1E7E", <<"U+1E7F">>>>, <<"U+1E80", <<"U+1E81">>>>,
       <<"U+1E82", <<"U+1E83">>>>, <<"U+1E84", <<"U+1E85">>>>, <<"U+1E86", <<"U+1E87">>>>, <<"U+1E88", <<"U+1E89">>>>,
       <<"U+1E8A", <<"U+1E8B">>>>, <<"U+1E8C", <<"U+1E8D">>>>, <<"U+1E8E", <<"U+1E8F">>>>, <<"U+1E90", <<"U+1E91">>>>,
       <<"U+1E92", <<"U+1E93">>>>, <<"U+1E94", <<"U+1E95">>>>, <<"U+1E9E", <<"U+00DF">>>>, <<"U+1EA0", <<"U+1EA1">>>>,
       <<"U+1EA2", <<"U+1EA3">>>>, <<"U+1EA4", <<"U+1EA5">>>>, <<"U+1EA6", <<"U+1EA7">>>>, <<"U+1EA8", <<"U+1EA9">>>>,
       <<"U+1EAA", <<"U+1EAB">>>>, <<"U+1EAC", <<"U+1EAD">>>>, <<"U+1EAE", <<"U+1EAF">>>>, <<"U+1EB0", <<"U+1EB1">>>>,
       <<"U+1EB2", <<"U+1EB3">>>>, <<"U+1EB4", <<"U+1EB5">>>>, <<"U+1EB6", <<"U+1EB7">>>>, <<"U+1EB8", <<"U+1EB9">>>>,
       <<"U+1EBA", <<"U+1EBB">>>>, <<"U+1EBC", <<"U+1EBD">>>>, <<"U+1EBE", <<"U+1EBF">>>>, <<"U+1EC0", <<"U+1EC1">>>>,
       <<"U+1EC2", <<"U+1EC3">>>>, <<"U+1EC4", <<"U+1EC5">>>>, <<"U+1EC6", <<"U+1EC7">>>>, <<"U+1EC8", <<"U+1EC9">>>>,
       <<"U+1ECA", <<"U+1ECB">>>>, <<"U+1ECC", <<"U+1ECD">>>>, <<"U+1ECE", <<"U+1ECF">>>>, <<"U+1ED0", <<"U+1ED1">>>>,
       <<"U+1ED2", <<"U+1ED3">>>>, <<"U+1ED4", <<"U+1ED5">>>>, <<"U+1ED6", <<"U+1ED7">>>>, <<"U+1ED8", <<"U+1ED9">>>>,
       <<"U+1EDA", <<"U+1EDB">>>>, <<"U+1EDC", <<"U+1EDD">>>>, <<"U+1EDE", <<"U+1EDF">>>>, <<"U+1EE0", <<"U+1EE1">>>>,
       <<"U+1EE2", <<"U+1EE3">>>>, <<"U+1EE4", <<"U+1EE5">>>>, <<"U+1EE6", <<"U+1EE7">>>>, <<"U+1EE8", <<"U+1EE9">>>>,
       <<"U+1EEA", <<"U+1EEB">>>>, <<"U+1EEC", <<"U+1EED">>>>, <<"U+1EEE", <<"U+1EEF">>>>, <<"U+1EF0", <<"U+1EF1">>>>,
       <<"U+1EF2", <<"U+1EF3">>>>, <<"U+1EF4", <<"U+1EF5">>>>, <<"U+1EF6", <<"U+1EF7">>>>, <<"U+1EF8", <<"U+1EF9">>>>,
       <<"U+1EFA", <<"U+1EFB">>>>, <<"U+1EFC", <<"U+1EFD">>>>, <<"U+1EFE", <<"U+1EFF">>>>, <<"U+1F08", <<"U+1F00">>>>,
       <<"U+1F09", <<"U+1F01">>>>, <<"U+1F0A", <<"U+1F02">>>>, <<"U+1F0B", <<"U+1F03">>>>, <<"U+1F0C", <<"U+1F04">>>>,
       <<"U+1F0D", <<"U+1F05">>>>, <<"U+1F0E", <<"U+1F06">>>>, <<"U+1F0F", <<"U+1F07">>>>, <<"U+1F18", <<"U+1F10">>>>,
       <<"U+1F19", <<"U+1F11">>>>, <<"U+1F1A", <<"U+1F12">>>>, <<"U+1F1B", <<"U+1F13">>>>, <<"U+1F1C", <<"U+1F14">>>>,
       <<"U+1F1D", <<"U+1F15">>>>, <<"U+1F28", <<"U+1F20">>>>, <<"U+1F29", <<"U+1F21">>>>, <<"U+1F2A", <<"U+1F22">>>>,
       <<"U+1F2B", <<"U+1F23">>>>, <<"U+1F2C", <<"U+1F24">>>>, <<"U+1F2D", <<"U+1F25">>>>, <<"U+1F2E", <<"U+1F26">>>>,
       <<"U+1F2F", <<"U+1F27">>>>, <<"U+1F38", <<"U+1F30">>>>, <<"U+1F39", <<"U+1F31">>>>, <<"U+1F3A", <<"U+1F32">>>>,
       <<"U+1F3B", <<"U+1F33">>>>, <<"U+1F3C", <<"U+1F34">>>>, <<"U+1F3D", <<"U+1F35">>>>, <<"U+1F3E", <<"U+1F36">>>>,
       <<"U+1F3F", <<"U+1F37">>>>, <<"U+1F48", <<"U+1F40">>>>, <<"U+1F49", <<"U+1F41">>>>, <<"U+1F4A", <<"U+1F42">>>>,
       <<"U+1F4B", <<"U+1F43">>>>, <<"U+1F4C", <<"U+1F44">>>>, <<"U+1F4D", <<"U+1F45">>>>, <<"U+1F59", <<"U+1F51">>>>,
       <<"U+1F5B", <<"U+1F53">>>>, <<"U+1F5D", <<"U+1F55">>>>, <<"U+1F5F", <<"U+1F57">>>>, <<"U+1F68", <<"U+1F60">>>>,
       <<"U+1F69", <<"U+1F61">>>>, <<"U+1F6A", <<"U+1F62">>>>, <<"U+1F6B", <<"U+1F63">>>>, <<"U+1F6C", <<"U+1F64">>>>,
       <<"U+1F6D", <<"U+1F65">>>>, <<"U+1F6E", <<"U+1F66">>>>, <<"U+1F6F", <<"U+1F67">>>>, <<"U+1F88", <<"U+1F80">>>>,
       <<"U+1F89", <<"U+1F81">>>>, <<"U+1F8A", <<"U+1F82">>>>, <<"U+1F8B", <<"U+1F83">>>>, <<"U+1F8C", <<"U+1F84">>>>,
       <<"U+1F8D", <<"U+1F85">>>>, <<"U+1F8E", <<"U+1F86">>>>, <<"U+1F8F", <<"U+1F87">>>>, <<"U+1F98", <<"U+1F90">>>>,
       <<"U+1F99", <<"U+1F91">>>>, <<"U+1F9A", <<"U+1F92">>>>, <<"U+1F9B", <<"U+1F93">>>>, <<"U+1F9C", <<"U+1F94">>>>,
       <<"U+1F9D", <<"U+1F95">>>>, <<"U+1F9E", <<"U+1F96">>>>, <<"U+1F9F", <<"U+1F97">>>>, <<"U+1FA8", <<"U+1FA0">>>>,
       <<"U+1FA9", <<"U+1FA1">>>>, <<"U+1FAA", <<"U+1FA2">>>>, <<"U+1FAB", <<"U+1FA3">>>>, <<"U+1FAC", <<"U+1FA4">>>>,
       <<"U+1FAD", <<"U+1FA5">>>>, <<"U+1FAE", <<"U+1FA6">>>>, <<"U+1FAF", <<"U+1FA7">>>>, <<"U+1FB8", <<"U+1FB0">>>>,
       <<"U+1FB9", <<"U+1FB1">>>>, <<"U+1FBA", <<"U+1F70">>>>, <<"U+1FBB", <<"U+1F71">>>>, <<"U+1FBC", <<"U+1FB3">>>>,
       <<"U+1FC8", <<"U+1F72">>>>, <<"U+1FC9", <<"U+1F73">>>>, <<"U+1FCA", <<"U+1F74">>>>, <<"U+1FCB", <<"U+1F75">>>>,
       <<"U+1FCC", <<"U+1FC3">>>>, <<"U+1FD8", <<"U+1FD0">>>>, <<"U+1FD9", <<"U+1FD1">>>>, <<"U+1FDA", <<"U+1F76">>>>,
       <<"U+1FDB", <<"U+1F77">>>>, <<"U+1FE8", <<"U+1FE0">>>>, <<"U+1FE9", <<"U+1FE1">>>>, <<"U+1FEA", <<"U+1F7A">>>>,
       <<"U+1FEB", <<"U+1F7B">>>>, <<"U+1FEC", <<"U+1FE5">>>>, <<"U+1FF8", <<"U+1F78">>>>, <<"U+1FF9", <<"U+1F79">>>>,
       <<"U+1FFA", <<"U+1F7C">>>>, <<"U+1FFB", <<"U+1F7D">>>>, <<"U+1FFC", <<"U+1FF3">>>>, <<"U+2126", <<"U+03C9">>>>,
       <<"U+212A", <<"k">>>>, <<"U+212B", <<"U+00E5">>>>, <<"U+2132", <<"U+214E">>>>, <<"U+2160", <<"U+2170">>>>,
       <<"U+2161", <<"U+2171">>>>, <<"U+2162", <<"U+2172">>>>, <<"U+2163", <<"U+2173">>>>, <<"U+2164", <<"U+2174">>>>,
       <<"U+2165", <<"U+2175">>>>, <<"U+2166", <<"U+2176">>>>, <<"U+2167", <<"U+2177">>>>, <<"U+2168", <<"U+2178">>>>,
       <<"U+2169", <<"U+2179">>>>, <<"U+216A", <<"U+217A">>>>, <<"U+216B", <<"U+217B">>>>, <<"U+216C", <<"U+217C">>>>,
       <<"U+216D", <<"U+217D">>>>, <<"U+216E", <<"U+217E">>>>, <<"U+216F", <<"U+217F">>>>, <<"U+2183", <<"U+2184">>>>,
       <<"U+24B6", <<"U+24D0">>>>, <<"U+24B7", <<"U+24D1">>>>, <<"U+24B8", <<"U+24D2">>>>, <<"U+24B9", <<"U+24D3">>>>,
       <<"U+24BA", <<"U+24D4">>>>, <<"U+24BB", <<"U+24D5">>>>, <<"U+24BC", <<"U+24D6">>>>, <<"U+24BD", <<"U+24D7">>>>,
       <<"U+24BE", <<"U+24D8">>>>, <<"U+24BF", <<"U+24D9">>>>, <<"U+24C0", <<"U+24DA">>>>, <<"U+24C1", <<"U+24DB">>>>,
       <<"U+24C2", <<"U+24DC">>>>, <<"U+24C3", <<"U+24DD">>>>, <<"U+24C4", <<"U+24DE">>>>, <<"U+24C5", <<"U+24DF">>>>,
       <<"U+24C6", <<"U+24E0">>>>, <<"U+24C7", <<"U+24E1">>>>, <<"U+24C8", <<"U+24E2">>>>, <<"U+24C9", <<"U+24E3">>>>,
       <<"U+24CA", <<"U+24E4">>>>, <<"U+24CB", <<"U+24E5">>>>, <<"U+24CC", <<"U+24E6">>>>, <<"U+24CD", <<"U+24E7">>>>,
       <<"U+24CE", <<"U+24E8">>>>, <<"U+24CF", <<"U+24E9">>>>, <<"U+2C00", <<"U+2C30">>>>, <<"U+2C01", <<"U+2C31">>>>,
       <<"U+2C02", <<"U+2C32">>>>, <<"U+2C03", <<"U+2C33">>>>, <<"U+2C04", <<"U+2C34">>>>, <<"U+2C05", <<"U+2C35">>>>,
       <<"U+2C06", <<"U+2C36">>>>, <<"U+2C07", <<"U+2C37">>>>, <<"U+2C08", <<"U+2C38">>>>, <<"U+2C09", <<"U+2C39">>>>,
       <<"U+2C0A", <<"U+2C3A">>>>, <<"U+2C0B", <<"U+2C3B">>>>, <<"U+2C0C", <<"U+2C3C">>>>, <<"U+2C0D", <<"U+2C3D">>>>,
       <<"U+2C0E", <<"U+2C3E">>>>, <<"U+2C0F", <<"U+2C3F">>>>, <<"U+2C10", <<"U+2C40">>>>, <<"U+2C11", <<"U+2C41">>>>,
       <<"U+2C12", <<"U+2C42">>>>, <<"U+2C13", <<"U+2C43">>>>, <<"U+2C14", <<"U+2C44">>>>, <<"U+2C15", <<"U+2C45">>>>,
       <<"U+2C16", <<"U+2C46">>>>, <<"U+2C17", <<"U+2C47">>>>, <<"U+2C18", <<"U+2C48">>>>, <<"U+2C19", <<"U+2C49">>>>,
       <<"U+2C1A", <<"U+2C4A">>>>, <<"U+2C1B", <<"U+2C4B">>>>, <<"U+2C1C", <<"U+2C4C">>>>, <<"U+2C1D", <<"U+2C4D">>>>,
       <<"U+2C1E", <<"U+2C4E">>>>, <<"U+2C1F", <<"U+2C4F">>>>, <<"U+2C20", <<"U+2C50">>>>, <<"U+2C21", <<"U+2C51">>>>,
       <<"U+2C22", <<"U+2C52">>>>, <<"U+2C23", <<"U+2C53">>>>, <<"U+2C24", <<"U+2C54">>>>, <<"U+2C25", <<"U+2C55">>>>,
       <<"U+2C26", <<"U+2C56">>>>, <<"U+2C27", <<"U+2C57">>>>, <<"U+2C28", <<"U+2C58">>>>, <<"U+2C29", <<"U+2C59">>>>,
       <<"U+2C2A", <<"U+2C5A">>>>, <<"U+2C2B", <<"U+2C5B">>>>, <<"U+2C2C", <<"U+2C5C">>>>, <<"U+2C2D", <<"U+2C5D">>>>,
       <<"U+2C2E", <<"U+2C5E">>>>, <<"U+2C2F", <<"U+2C5F">>>>, <<"U+2C60", <<"U+2C61">>>>, <<"U+2C62", <<"U+026B">>>>,
       <<"U+2C63", <<"U+1D7D">>>>, <<"U+2C64", <<"U+027D">>>>, <<"U+2C67", <<"U+2C68">>>>, <<"U+2C69", <<"U+2C6A">>>>,
       <<"U+2C6B", <<"U+2C6C">>>>, <<"U+2C6D", <<"U+0251">>>>, <<"U+2C6E", <<"U+0271">>>>, <<"U+2C6F", <<"U+0250">>>>,
       <<"U+2C70", <<"U+0252">>>>, <<"U+2C72", <<"U+2C73">>>>, <<"U+2C75", <<"U+2C76">>>>, <<"U+2C7E", <<"U+023F">>>>,
       <<"U+2C7F", <<"U+0240">>>>, <<"U+2C80", <<"U+2C81">>>>, <<"U+2C82", <<"U+2C83">>>>, <<"U+2C84", <<"U+2C85">>>>,
       <<"U+2C86", <<"U+2C87">>>>, <<"U+2C88", <<"U+2C89">>>>, <<"U+2C8A", <<"U+2C8B">>>>, <<"U+2C8C", <<"U+2C8D">>>>,
       <<"U+2C8E", <<"U+2C8F">>>>, <<"U+2C90", <<"U+2C91">>>>, <<"U+2C92", <<"U+2C93">>>>, <<"U+2C94", <<"U+2C95">>>>,
       <<"U+2C96", <<"U+2C97">>>>, <<"U+2C98", <<"U+2C99">>>>, <<"U+2C9A", <<"U+2C9B">>>>, <<"U+2C9C", <<"U+2C9D">>>>,
       <<"U+2C9E", <<"U+2C9F">>>>, <<"U+2CA0", <<"U+2CA1">>>>, <<"U+2CA2", <<"U+2CA3">>>>, <<"U+2CA4", <<"U+2CA5">>>>,
       <<"U+2CA6", <<"U+2CA7">>>>, <<"U+2CA8", <<"U+2CA9">>>>, <<"U+2CAA", <<"U+2CAB">>>>, <<"U+2CAC", <<"U+2CAD">>>>,
       <<"U+2CAE", <<"U+2CAF">>>>, <<"U+2CB0", <<"U+2CB1">>>>, <<"U+2CB2", <<"U+2CB3">>>>, <<"U+2CB4", <<"U+2CB5">>>>,
       <<"U+2CB6", <<"U+2CB7">>>>, <<"U+2CB8", <<"U+2CB9">>>>, <<"U+2CBA", <<"U+2CBB">>>>, <<"U+2CBC", <<"U+2CBD">>>>,
       <<"U+2CBE", <<"U+2CBF">>>>, <<"U+2CC0", <<"U+2CC1">>>>, <<"U+2CC2", <<"U+2CC3">>>>, <<"U+2CC4", <<"U+2CC5">>>>,
       <<"U+2CC6", <<"U+2CC7">>>>, <<"U+2CC8", <<"U+2CC9">>>>, <<"U+2CCA", <<"U+2CCB">>>>, <<"U+2CCC", <<"U+2CCD">>>>,
       <<"U+2CCE", <<"U+2CCF">>>>, <<"U+2CD0", <<"U+2CD1">>>>, <<"U+2CD2", <<"U+2CD3">>>>, <<"U+2CD4", <<"U+2CD5">>>>,
       <<"U+2CD6", <<"U+2CD7">>>>, <<"U+2CD8", <<"U+2CD9">>>>, <<"U+2CDA", <<"U+2CDB">>>>, <<"U+2CDC", <<"U+2CDD">>>>,
       <<"U+2CDE", <<"U+2CDF">>>>, <<"U+2CE0", <<"U+2CE1">>>>, <<"U+2CE2", <<"U+2CE3">>>>, <<"U+2CEB", <<"U+2CEC">>>>,
       <<"U+2CED", <<"U+2CEE">>>>, <<"U+2CF2", <<"U+2CF3">>>>, <<"U+A640", <<"U+A641">>>>, <<"U+A642", <<"U+A643">>>>,
       <<"U+A644", <<"U+A645">>>>, <<"U+A646", <<"U+A647">>>>, <<"U+A648", <<"U+A649">>>>, <<"U+A64A", <<"U+A64B">>>>,
       <<"U+A64C", <<"U+A64D">>>>, <<"U+A64E", <<"U+A64F">>>>, <<"U+A650", <<"U+A651">>>>, <<"U+A652", <<"U+A653">>>>,
       <<"U+A654", <<"U+A655">>>>, <<"U+A656", <<"U+A657">>>>, <<"U+A658", <<"U+A659">>>>, <<"U+A65A", <<"U+A65B">>>>,
       <<"U+A65C", <<"U+A65D">>>>, <<"U+A65E", <<"U+A65F">>>>, <<"U+A660", <<"U+A661">>>>, <<"U+A662", <<"U+A663">>>>,
       <<"U+A664", <<"U+A665">>>>, <<"U+A666", <<"U+A667">>>>, <<"U+A668", <<"U+A669">>>>, <<"U+A66A", <<"U+A66B">>>>,
       <<"U+A66C", <<"U+A66D">>>>, <<"U+A680", <<"U+A681">>>>, <<"U+A682", <<"U+A683">>>>, <<"U+A684", <<"U+A685">>>>,
       <<"U+A686", <<"U+A687">>>>, <<"U+A688", <<"U+A689">>>>, <<"U+A68A", <<"U+A68B">>>>, <<"U+A68C", <<"U+A68D">>>>,
       <<"U+A68E", <<"U+A68F">>>>, <<"U+A690", <<"U+A691">>>>, <<"U+A692", <<"U+A693">>>>, <<"U+A694", <<"U+A695">>>>,
       <<"U+A696", <<"U+A697">>>>, <<"U+A698", <<"U+A699">>>>, <<"U+A69A", <<"U+A69B">>>>, <<"U+A722", <<"U+A723">>>>,
       <<"U+A724", <<"U+A725">>>>, <<"U+A726", <<"U+A727">>>>, <<"U+A728", <<"U+A729">>>>, <<"U+A72A", <<"U+A72B">>>>,
       <<"U+A72C", <<"U+A72D">>>>, <<"U+A72E", <<"U+A72F">>>>, <<"U+A732", <<"U+A733">>>>, <<"U+A734", <<"U+A735">>>>,
       <<"U+A736", <<"U+A737">>>>, <<"U+A738", <<"U+A739">>>>, <<"U+A73A", <<"U+A73B">>>>, <<"U+A73C", <<"U+A73D">>>>,
       <<"U+A73E", <<"U+A73F">>>>, <<"U+A740", <<"U+A741">>>>, <<"U+A742", <<"U+A743">>>>, <<"U+A744", <<"U+A745">>>>,
       <<"U+A746", <<"U+A747">>>>, <<"U+A748", <<"U+A749">>>>, <<"U+A74A", <<"U+A74B">>>>, <<"U+A74C", <<"U+A74D">>>>,
       <<"U+A74E", <<"U+A74F">>>>, <<"U+A750", <<"U+A751">>>>, <<"U+A752", <<"U+A753">>>>, <<"U+A754", <<"U+A755">>>>,
       <<"U+A756", <<"U+A757">>>>, <<"U+A758", <<"U+A759">>>>, <<"U+A75A", <<"U+A75B">>>>, <<"U+A75C", <<"U+A75D">>>>,
       <<"U+A75E", <<"U+A75F">>>>, <<"U+A760", <<"U+A761">>>>, <<"U+A762", <<"U+A763">>>>, <<"U+A764", <<"U+A765">>>>,
       <<"U+A766", <<"U+A767">>>>, <<"U+A768", <<"U+A769">>>>, <<"U+A76A", <<"U+A76B">>>>, <<"U+A76C", <<"U+A76D">>>>,
       <<"U+A76E", <<"U+A76F">>>>, <<"U+A779", <<"U+A77A">>>>, <<"U+A77B", <<"U+A77C">>>>, <<"U+A77D", <<"U+1D79">>>>,
       <<"U+A77E", <<"U+A77F">>>>, <<"U+A780", <<"U+A781">>>>, <<"U+A782", <<"U+A783">>>>, <<"U+A784", <<"U+A785">>>>,
       <<"U+A786", <<"U+A787">>>>, <<"U+A78B", <<"U+A78C">>>>, <<"U+A78D", <<"U+0265">>>>, <<"U+A790", <<"U+A791">>>>,
       <<"U+A792", <<"U+A793">>>>, <<"U+A796", <<"U+A797">>>>, <<"U+A798", <<"U+A799">>>>, <<"U+A79A", <<"U+A79B">>>>,
       <<"U+A79C", <<"U+A79D">>>>, <<"U+A79E", <<"U+A79F">>>>, <<"U+A7A0", <<"U+A7A1">>>>, <<"U+A7A2", <<"U+A7A3">>>>,
       <<"U+A7A4", <<"U+A7A5">>>>, <<"U+A7A6", <<"U+A7A7">>>>, <<"U+A7A8", <<"U+A7A9">>>>, <<"U+A7AA", <<"U+0266">>>>,
       <<"U+A7AB", <<"U+025C">>>>, <<"U+A7AC", <<"U+0261">>>>, <<"U+A7AD", <<"U+026C">>>>, <<"U+A7AE", <<"U+026A">>>>,
       <<"U+A7B0", <<"U+029E">>>>, <<"U+A7B1", <<"U+0287">>>>, <<"U+A7B2", <<"U+029D">>>>, <<"U+A7B3", <<"U+AB53">>>>,
       <<"U+A7B4", <<"U+A7B5">>>>, <<"U+A7B6", <<"U+A7B7">>>>, <<"U+A7B8", <<"U+A7B9">>>>, <<"U+A7BA", <<"U+A7BB">>>>,
       <<"U+A7BC", <<"U+A7BD">>>>, <<"U+A7BE", <<"U+A7BF">>>>, <<"U+A7C0", <<"U+A7C1">>>>, <<"U+A7C2", <<"U+A7C3">>>>,
       <<"U+A7C4", <<"U+A794">>>>, <<"U+A7C5", <<"U+0282">>>>, <<"U+A7C6", <<"U+1D8E">>>>, <<"U+A7C7", <<"U+A7C8">>>>,
       <<"U+A7C9", <<"U+A7CA">>>>, <<"U+A7CB", <<"U+0264">>>>, <<"U+A7CC", <<"U+A7CD">>>>, <<"U+A7CE", <<"U+A7CF">>>>,
       <<"U+A7D0", <<"U+A7D1">>>>, <<"U+A7D2", <<"U+A7D3">>>>, <<"U+A7D4", <<"U+A7D5">>>>, <<"U+A7D6", <<"U+A7D7">>>>,
       <<"U+A7D8", <<"U+A7D9">>>>, <<"U+A7DA", <<"U+A7DB">>>>, <<"U+A7DC", <<"U+019B">>>>, <<"U+A7F5", <<"U+A7F6">>>>,
       <<"U+FF21", <<"U+FF41">>>>, <<"U+FF22", <<"U+FF42">>>>, <<"U+FF23", <<"U+FF43">>>>, <<"U+FF24", <<"U+FF44">>>>,
       <<"U+FF25", <<"U+FF45">>>>, <<"U+FF26", <<"U+FF46">>>>, <<"U+FF27", <<"U+FF47">>>>, <<"U+FF28", <<"U+FF48">>>>,
       <<"U+FF29", <<"U+FF49">>>>, <<"U+FF2A", <<"U+FF4A">>>>, <<"U+FF2B", <<"U+FF4B">>>>, <<"U+FF2C", <<"U+FF4C">>>>,
       <<"U+FF2D", <<"U+FF4D">>>>, <<"U+FF2E", <<"U+FF4E">>>>, <<"U+FF2F", <<"U+FF4F">>>>, <<"U+FF30", <<"U+FF50">>>>,
       <<"U+FF31", <<"U+FF51">>>>, <<"U+FF32", <<"U+FF52">>>>, <<"U+FF33", <<"U+FF53">>>>, <<"U+FF34", <<"U+FF54">>>>,
       <<"U+FF35", <<"U+FF55">>>>, <<"U+FF36", <<"U+FF56">>>>, <<"U+FF37", <<"U+FF57">>>>, <<"U+FF38", <<"U+FF58">>>>,
       <<"U+FF39", <<"U+FF59">>>>, <<"U+FF3A", <<"U+FF5A">>>>, <<"U+10400", <<"U+10428">>>>, <<"U+10401", <<"U+10429">>>>,
       <<"U+10402", <<"U+1042A">>>>, <<"U+10403", <<"U+1042B">>>>, <<"U+10404", <<"U+1042C">>>>, <<"U+10405", <<"U+1042D">>>>,
       <<"U+10406", <<"U+1042E">>>>, <<"U+10407", <<"U+1042F">>>>, <<"U+10408", <<"U+10430">>>>, <<"U+10409", <<"U+10431">>>>,
       <<"U+1040A", <<"U+10432">>>>, <<"U+1040B", <<"U+10433">>>>, <<"U+1040C", <<"U+10434">>>>, <<"U+1040D", <<"U+10435">>>>,
       <<"U+1040E", <<"U+10436">>>>, <<"U+1040F", <<"U+10437">>>>, <<"U+10410", <<"U+10438">>>>, <<"U+10411", <<"U+10439">>>>,
       <<"U+10412", <<"U+1043A">>>>, <<"U+10413", <<"U+1043B">>>>, <<"U+10414", <<"U+1043C">>>>, <<"U+10415", <<"U+1043D">>>>,
       <<"U+10416", <<"U+1043E">>>>, <<"U+10417", <<"U+1043F">>>>, <<"U+10418", <<"U+10440">>>>, <<"U+10419", <<"U+10441">>>>,
       <<"U+1041A", <<"U+10442">>>>, <<"U+1041B", <<"U+10443">>>>, <<"U+1041C", <<"U+10444">>>>, <<"U+1041D", <<"U+10445">>>>,
       <<"U+1041E", <<"U+10446">>>>, <<"U+1041F", <<"U+10447">>>>, <<"U+10420", <<"U+10448">>>>, <<"U+10421", <<"U+10449">>>>,
       <<"U+10422", <<"U+1044A">>>>, <<"U+10423", <<"U+1044B">>>>, <<"U+10424", <<"U+1044C">>>>, <<"U+10425", <<"U+1044D">>>>,
       <<"U+10426", <<"U+1044E">>>>, <<"U+10427", <<"U+1044F">>>>, <<"U+104B0", <<"U+104D8">>>>, <<"U+104B1", <<"U+104D9">>>>,
       <<"U+104B2", <<"U+104DA">>>>, <<"U+104B3", <<"U+104DB">>>>, <<"U+104B4", <<"U+104DC">>>>, <<"U+104B5", <<"U+104DD">>>>,
       <<"U+104B6", <<"U+104DE">>>>, <<"U+104B7", <<"U+104DF">>>>, <<"U+104B8", <<"U+104E0">>>>, <<"U+104B9", <<"U+104E1">>>>,
       <<"U+104BA", <<"U+104E2">>>>, <<"U+104BB", <<"U+104E3">>>>, <<"U+104BC", <<"U+104E4">>>>, <<"U+104BD", <<"U+104E5">>>>,
       <<"U+104BE", <<"U+104E6">>>>, <<"U+104BF", <<"U+104E7">>>>, <<"U+104C0", <<"U+104E8">>>>, <<"U+104C1", <<"U+104E9">>>>,
       <<"U+104C2", <<"U+104EA">>>>, <<"U+104C3", <<"U+104EB">>>>, <<"U+104C4", <<"U+104EC">>>>, <<"U+104C5", <<"U+104ED">>>>,
       <<"U+104C6", <<"U+104EE">>>>, <<"U+104C7", <<"U+104EF">>>>, <<"U+104C8", <<"U+104F0">>>>, <<"U+104C9", <<"U+104F1">>>>,
       <<"U+104CA", <<"U+104F2">>>>, <<"U+104CB", <<"U+104F3">>>>, <<"U+104CC", <<"U+104F4">>>>, <<"U+104CD", <<"U+104F5">>>>,
       <<"U+104CE", <<"U+104F6">>>>, <<"U+104CF", <<"U+104F7">>>>, <<"U+104D0", <<"U+104F8">>>>, <<"U+104D1", <<"U+104F9">>>>,
       <<"U+104D2", <<"U+104FA">>>>, <<"U+104D3", <<"U+104FB">>>>, <<"U+10570", <<"U+10597">>>>, <<"U+10571", <<"U+10598">>>>,
       <<"U+10572", <<"U+10599">>>>, <<"U+10573", <<"U+1059A">>>>, <<"U+10574", <<"U+1059B">>>>, <<"U+10575", <<"U+1059C">>>>,
       <<"U+10576", <<"U+1059D">>>>, <<"U+10577", <<"U+1059E">>>>, <<"U+10578", <<"U+1059F">>>>, <<"U+10579", <<"U+105A0">>>>,
       <<"U+1057A", <<"U+105A1">>>>, <<"U+1057C", <<"U+105A3">>>>, <<"U+1057D", <<"U+105A4">>>>, <<"U+1057E", <<"U+105A5">>>>,
       <<"U+1057F", <<"U+105A6">>>>, <<"U+10580", <<"U+105A7">>>>, <<"U+10581", <<"U+105A8">>>>, <<"U+10582", <<"U+105A9">>>>,
       <<"U+10583", <<"U+105AA">>>>, <<"U+10584", <<"U+105AB">>>>, <<"U+10585", <<"U+105AC">>>>, <<"U+10586", <<"U+105AD">>>>,
       <<"U+10587", <<"U+105AE">>>>, <<"U+10588", <<"U+105AF">>>>, <<"U+10589", <<"U+105B0">>>>, <<"U+1058A", <<"U+105B1">>>>,
       <<"U+1058C", <<"U+105B3">>>>, <<"U+1058D", <<"U+105B4">>>>, <<"U+1058E", <<"U+105B5">>>>, <<"U+1058F", <<"U+105B6">>>>,
       <<"U+10590", <<"U+105B7">>>>, <<"U+10591", <<"U+105B8">>>>, <<"U+10592", <<"U+105B9">>>>, <<"U+10594", <<"U+105BB">>>>,
       <<"U+10595", <<"U+105BC">>>>, <<"U+10C80", <<"U+10CC0">>>>, <<"U+10C81", <<"U+10CC1">>>>, <<"U+10C82", <<"U+10CC2">>>>,
       <<"U+10C83", <<"U+10CC3">>>>, <<"U+10C84", <<"U+10CC4">>>>, <<"U+10C85", <<"U+10CC5">>>>, <<"U+10C86", <<"U+10CC6">>>>,
       <<"U+10C87", <<"U+10CC7">>>>, <<"U+10C88", <<"U+10CC8">>>>, <<"U+10C89", <<"U+10CC9">>>>, <<"U+10C8A", <<"U+10CCA">>>>,
       <<"U+10C8B", <<"U+10CCB">>>>, <<"U+10C8C", <<"U+10CCC">>>>, <<"U+10C8D", <<"U+10CCD">>>>, <<"U+10C8E", <<"U+10CCE">>>>,
       <<"U+10C8F", <<"U+10CCF">>>>, <<"U+10C90", <<"U+10CD0">>>>, <<"U+10C91", <<"U+10CD1">>>>, <<"U+10C92", <<"U+10CD2">>>>,
       <<"U+10C93", <<"U+10CD3">>>>, <<"U+10C94", <<"U+10CD4">>>>, <<"U+10C95", <<"U+10CD5">>>>, <<"U+10C96", <<"U+10CD6">>>>,
       <<"U+10C97", <<"U+10CD7">>>>, <<"U+10C98", <<"U+10CD8">>>>, <<"U+10C99", <<"U+10CD9">>>>, <<"U+10C9A", <<"U+10CDA">>>>,
       <<"U+10C9B", <<"U+10CDB">>>>, <<"U+10C9C", <<"U+10CDC">>>>, <<"U+10C9D", <<"U+10CDD">>>>, <<"U+10C9E", <<"U+10CDE">>>>,
       <<"U+10C9F", <<"U+10CDF">>>>, <<"U+10CA0", <<"U+10CE0">>>>, <<"U+10CA1", <<"U+10CE1">>>>, <<"U+10CA2", <<"U+10CE2">>>>,
       <<"U+10CA3", <<"U+10CE3">>>>, <<"U+10CA4", <<"U+10CE4">>>>, <<"U+10CA5", <<"U+10CE5">>>>, <<"U+10CA6", <<"U+10CE6">>>>,
       <<"U+10CA7", <<"U+10CE7">>>>, <<"U+10CA8", <<"U+10CE8">>>>, <<"U+10CA9", <<"U+10CE9">>>>, <<"U+10CAA", <<"U+10CEA">>>>,
       <<"U+10CAB", <<"U+10CEB">>>>, <<"U+10CAC", <<"U+10CEC">>>>, <<"U+10CAD", <<"U+10CED">>>>, <<"U+10CAE", <<"U+10CEE">>>>,
       <<"U+10CAF", <<"U+10CEF">>>>, <<"U+10CB0", <<"U+10CF0">>>>, <<"U+10CB1", <<"U+10CF1">>>>, <<"U+10CB2", <<"U+10CF2">>>>,
       <<"U+10D50", <<"U+10D70">>>>, <<"U+10D51", <<"U+10D71">>>>, <<"U+10D52", <<"U+10D72">>>>, <<"U+10D53", <<"U+10D73">>>>,
       <<"U+10D54", <<"U+10D74">>>>, <<"U+10D55", <<"U+10D75">>>>, <<"U+10D56", <<"U+10D76">>>>, <<"U+10D57", <<"U+10D77">>>>,
       <<"U+10D58", <<"U+10D78">>>>, <<"U+10D59", <<"U+10D79">>>>, <<"U+10D5A", <<"U+10D7A">>>>, <<"U+10D5B", <<"U+10D7B">>>>,
       <<"U+10D5C", <<"U+10D7C">>>>, <<"U+10D5D", <<"U+10D7D">>>>, <<"U+10D5E", <<"U+10D7E">>>>, <<"U+10D5F", <<"U+10D7F">>>>,
       <<"U+10D60", <<"U+10D80">>>>, <<"U+10D61", <<"U+10D81">>>>, <<"U+10D62", <<"U+10D82">>>>, <<"U+10D63", <<"U+10D83">>>>,
       <<"U+10D64", <<"U+10D84">>>>, <<"U+10D65", <<"U+10D85">>>>, <<"U+118A0", <<"U+118C0">>>>, <<"U+118A1", <<"U+118C1">>>>,
       <<"U+118A2", <<"U+118C2">>>>, <<"U+118A3", <<"U+118C3">>>>, <<"U+118A4", <<"U+118C4">>>>, <<"U+118A5", <<"U+118C5">>>>,
       <<"U+118A6", <<"U+118C6">>>>, <<"U+118A7", <<"U+118C7">>>>, <<"U+118A8", <<"U+118C8">>>>, <<"U+118A9", <<"U+118C9">>>>,
       <<"U+118AA", <<"U+118CA">>>>, <<"U+118AB", <<"U+118CB">>>>, <<"U+118AC", <<"U+118CC">>>>, <<"U+118AD", <<"U+118CD">>>>,
       <<"U+118AE", <<"U+118CE">>>>, <<"U+118AF", <<"U+118CF">>>>, <<"U+118B0", <<"U+118D0">>>>, <<"U+118B1", <<"U+118D1">>>>,
       <<"U+118B2", <<"U+118D2">>>>, <<"U+118B3", <<"U+118D3">>>>, <<"U+118B4", <<"U+118D4">>>>, <<"U+118B5", <<"U+118D5">>>>,
       <<"U+118B6", <<"U+118D6">>>>, <<"U+118B7", <<"U+118D7">>>>, <<"U+118B8", <<"U+118D8">>>>, <<"U+118B9", <<"U+118D9">>>>,
       <<"U+118BA", <<"U+118DA">>>>, <<"U+118BB", <<"U+118DB">>>>, <<"U+118BC", <<"U+118DC">>>>, <<"U+118BD", <<"U+118DD">>>>,
       <<"U+118BE", <<"U+118DE">>>>, <<"U+118BF", <<"U+118DF">>>>, <<"U+16E40", <<"U+16E60">>>>, <<"U+16E41", <<"U+16E61">>>>,
       <<"U+16E42", <<"U+16E62">>>>, <<"U+16E43", <<"U+16E63">>>>, <<"U+16E44", <<"U+16E64">>>>, <<"U+16E45", <<"U+16E65">>>>,
       <<"U+16E46", <<"U+16E66">>>>, <<"U+16E47", <<"U+16E67">>>>, <<"U+16E48", <<"U+16E68">>>>, <<"U+16E49", <<"U+16E69">>>>,
       <<"U+16E4A", <<"U+16E6A">>>>, <<"U+16E4B", <<"U+16E6B">>>>, <<"U+16E4C", <<"U+16E6C">>>>, <<"U+16E4D", <<"U+16E6D">>>>,
       <<"U+16E4E", <<"U+16E6E">>>>, <<"U+16E4F", <<"U+16E6F">>>>, <<"U+16E50", <<"U+16E70">>>>, <<"U+16E51", <<"U+16E71">>>>,
       <<"U+16E52", <<"U+16E72">>>>, <<"U+16E53", <<"U+16E73">>>>, <<"U+16E54", <<"U+16E74">>>>, <<"U+16E55", <<"U+16E75">>>>,
       <<"U+16E56", <<"U+16E76">>>>, <<"U+16E57", <<"U+16E77">>>>, <<"U+16E58", <<"U+16E78">>>>, <<"U+16E59", <<"U+16E79">>>>,
       <<"U+16E5A", <<"U+16E7A">>>>, <<"U+16E5B", <<"U+16E7B">>>>, <<"U+16E5C", <<"U+16E7C">>>>, <<"U+16E5D", <<"U+16E7D">>>>,
       <<"U+16E5E", <<"U+16E7E">>>>, <<"U+16E5F", <<"U+16E7F">>>>, <<"U+16EA0", <<"U+16EBB">>>>, <<"U+16EA1", <<"U+16EBC">>>>,
       <<"U+16EA2", <<"U+16EBD">>>>, <<"U+16EA3", <<"U+16EBE">>>>, <<"U+16EA4", <<"U+16EBF">>>>, <<"U+16EA5", <<"U+16EC0">>>>,
       <<"U+16EA6", <<"U+16EC1">>>>, <<"U+16EA7", <<"U+16EC2">>>>, <<"U+16EA8", <<"U+16EC3">>>>, <<"U+16EA9", <<"U+16EC4">>>>,
       <<"U+16EAA", <<"U+16EC5">>>>, <<"U+16EAB", <<"U+16EC6">>>>, <<"U+16EAC", <<"U+16EC7">>>>, <<"U+16EAD", <<"U+16EC8">>>>,
       <<"U+16EAE", <<"U+16EC9">>>>, <<"U+16EAF", <<"U+16ECA">>>>, <<"U+16EB0", <<"U+16ECB">>>>, <<"U+16EB1", <<"U+16ECC">>>>,
       <<"U+16EB2", <<"U+16ECD">>>>, <<"U+16EB3", <<"U+16ECE">>>>, <<"U+16EB4", <<"U+16ECF">>>>, <<"U+16EB5", <<"U+16ED0">>>>,
       <<"U+16EB6", <<"U+16ED1">>>>, <<"U+16EB7", <<"U+16ED2">>>>, <<"U+16EB8", <<"U+16ED3">>>>, <<"U+1E900", <<"U+1E922">>>>,
       <<"U+1E901", <<"U+1E923">>>>, <<"U+1E902", <<"U+1E924">>>>, <<"U+1E903", <<"U+1E925">>>>, <<"U+1E904", <<"U+1E926">>>>,
       <<"U+1E905", <<"U+1E927">>>>, <<"U+1E906", <<"U+1E928">>>>, <<"U+1E907", <<"U+1E929">>>>, <<"U+1E908", <<"U+1E92A">>>>,
       <<"U+1E909", <<"U+1E92B">>>>, <<"U+1E90A", <<"U+1E92C">>>>, <<"U+1E90B", <<"U+1E92D">>>>, <<"U+1E90C", <<"U+1E92E">>>>,
       <<"U+1E90D", <<"U+1E92F">>>>, <<"U+1E90E", <<"U+1E930">>>>, <<"U+1E90F", <<"U+1E931">>>>, <<"U+1E910", <<"U+1E932">>>>,
       <<"U+1E911", <<"U+1E933">>>>, <<"U+1E912", <<"U+1E934">>>>, <<"U+1E913", <<"U+1E935">>>>, <<"U+1E914", <<"U+1E936">>>>,
       <<"U+1E915", <<"U+1E937">>>>, <<"U+1E916", <<"U+1E938">>>>, <<"U+1E917", <<"U+1E939">>>>, <<"U+1E918", <<"U+1E93A">>>>,
       <<"U+1E919", <<"U+1E93B">>>>, <<"U+1E91A", <<"U+1E93C">>>>, <<"U+1E91B", <<"U+1E93D">>>>, <<"U+1E91C", <<"U+1E93E">>>>,
       <<"U+1E91D", <<"U+1E93F">>>>, <<"U+1E91E", <<"U+1E940">>>>, <<"U+1E91F", <<"U+1E941">>>>, <<"U+1E920", <<"U+1E942">>>>,
       <<"U+1E921", <<"U+1E943">>>> >>

\* the cased letters outside ASCII that no mapping changes
UnmappedCased ==
    {  "U+00AA", "U+00BA", "U+0138", "U+018D", "U+01AA", "U+01AB", "U+01BA", "U+01BE", "U+0221", "U+0234",
       "U+0235", "U+0236", "U+0237", "U+0238", "U+0239", "U+0255", "U+0258", "U+025A", "U+025D", "U+025E",
       "U+025F", "U+0262", "U+0267", "U+026D", "U+026E", "U+0270", "U+0273", "U+0274", "U+0276", "U+0277",
       "U+0278", "U+0279", "U+027A", "U+027B", "U+027C", "U+027E", "U+027F", "U+0281", "U+0284", "U+0285",
       "U+0286", "U+028D", "U+028E", "U+028F", "U+0290", "U+0291", "U+0293", "U+0296", "U+0297", "U+0298",
       "U+0299", "U+029A", "U+029B", "U+029C", "U+029F", "U+02A0", "U+02A1", "U+02A2", "U+02A3", "U+02A4",
       "U+02A5", "U+02A6", "U+02A7", "U+02A8", "U+02A9", "U+02AA", "U+02AB", "U+02AC", "U+02AD", "U+02AE",
       "U+02AF", "U+03D2", "U+03D3", "U+03D4", "U+03FC", "U+0560", "U+0588", "U+1D00", "U+1D01", "U+1D02",
       "U+1D03", "U+1D04", "U+1D05", "U+1D06", "U+1D07", "U+1D08", "U+1D09", "U+1D0A", "U+1D0B", "U+1D0C",
       "U+1D0D", "U+1D0E", "U+1D0F", "U+1D10", "U+1D11", "U+1D12", "U+1D13", "U+1D14", "U+1D15", "U+1D16",
       "U+1D17", "U+1D18", "U+1D19", "U+1D1A", "U+1D1B", "U+1D1C", "U+1D1D", "U+1D1E", "U+1D1F", "U+1D20",
       "U+1D21", "U+1D22", "U+1D23", "U+1D24", "U+1D25", "U+1D26", "U+1D27", "U+1D28", "U+1D29", "U+1D2A",
       "U+1D2B", "U+1D6B", "U+1D6C", "U+1D6D", "U+1D6E", "U+1D6F", "U+1D70", "U+1D71", "U+1D72", "U+1D73",
       "U+1D74", "U+1D75", "U+1D76", "U+1D77", "U+1D7A", "U+1D7B", "U+1D7C", "U+1D7E", "U+1D7F", "U+1D80",
       "U+1D81", "U+1D82", "U+1D83", "U+1D84", "U+1D85", "U+1D86", "U+1D87", "U+1D88", "U+1D89", "U+1D8A",
       "U+1D8B", "U+1D8C", "U+1D8D", "U+1D8F", "U+1D90", "U+1D91", "U+1D92", "U+1D93", "U+1D94", "U+1D95",
       "U+1D96", "U+1D97", "U+1D98", "U+1D99", "U+1D9A", "U+1E9C", "U+1E9D", "U+1E9F", "U+2102", "U+2107",
       "U+210A", "U+210B", "U+210C", "U+210D", "U+210E", "U+210F", "U+2110", "U+2111", "U+2112", "U+2113",
       "U+2115", "U+2119", "U+211A", "U+211B", "U+211C", "U+211D", "U+2124", "U+2128", "U+212C", "U+212D",
       "U+212F", "U+2130", "U+2131", "U+2133", "U+2134", "U+2139", "U+213C", "U+213D", "U+213E", "U+213F",
       "U+2145", "U+2146", "U+2147", "U+2148", "U+2149", "U+2C71", "U+2C74", "U+2C77", "U+2C78", "U+2C79",
       "U+2C7A", "U+2C7B", "U+2CE4", "U+A730", "U+A731", "U+A771", "U+A772", "U+A773", "U+A774", "U+A775",
       "U+A776", "U+A777", "U+A778", "U+A78E", "U+A795", "U+A7AF", "U+A7FA", "U+AB30", "U+AB31", "U+AB32",
       "U+AB33", "U+AB34", "U+AB35", "U+AB36", "U+AB37", "U+AB38", "U+AB39", "U+AB3A", "U+AB3B", "U+AB3C",
       "U+AB3D", "U+AB3E", "U+AB3F", "U+AB40", "U+AB41", "U+AB42", "U+AB43", "U+AB44", "U+AB45", "U+AB46",
       "U+AB47", "U+AB48", "U+AB49", "U+AB4A", "U+AB4B", "U+AB4C", "U+AB4D", "U+AB4E", "U+AB4F", "U+AB50",
       "U+AB51", "U+AB52", "U+AB54", "U+AB55", "U+AB56", "U+AB57", "U+AB58", "U+AB59", "U+AB5A", "U+AB60",
       "U+AB61", "U+AB62", "U+AB63", "U+AB64", "U+AB65", "U+AB66", "U+AB67", "U+AB68", "U+1D400", "U+1D401",
       "U+1D402", "U+1D403", "U+1D404", "U+1D405", "U+1D406", "U+1D407", "U+1D408", "U+1D409", "U+1D40A", "U+1D40B",
       "U+1D40C", "U+1D40D", "U+1D40E", "U+1D40F", "U+1D410", "U+1D411", "U+1D412", "U+1D413", "U+1D414", "U+1D415",
       "U+1D416", "U+1D417", "U+1D418", "U+1D419", "U+1D41A", "U+1D41B", "U+1D41C", "U+1D41D", "U+1D41E", "U+1D41F",
       "U+1D420", "U+1D421", "U+1D422", "U+1D423", "U+1D424", "U+1D425", "U+1D426", "U+1D427", "U+1D428", "U+1D429",
       "U+1D42A", "U+1D42B", "U+1D42C", "U+1D42D", "U+1D42E", "U+1D42F", "U+1D430", "U+1D431", "U+1D432", "U+1D433",
       "U+1D434", "U+1D435", "U+1D436", "U+1D437", "U+1D438", "U+1D439", "U+1D43A", "U+1D43B", "U+1D43C", "U+1D43D",
       "U+1D43E", "U+1D43F", "U+1D440", "U+1D441", "U+1D442", "U+1D443", "U+1D444", "U+1D445", "U+1D446", "U+1D447",
       "U+1D448", "U+1D449", "U+1D44A", "U+1D44B", "U+1D44C", "U+1D44D", "U+1D44E", "U+1D44F", "U+1D450", "U+1D451",
       "U+1D452", "U+1D453", "U+1D454", "U+1D456", "U+1D457", "U+1D458", "U+1D459", "U+1D45A", "U+1D45B", "U+1D45C",
       "U+1D45D", "U+1D45E", "U+1D45F", "U+1D460", "U+1D461", "U+1D462", "U+1D463", "U+1D464", "U+1D465", "U+1D466",
       "U+1D467", "U+1D468", "U+1D469", "U+1D46A", "U+1D46B", "U+1D46C", "U+1D46D", "U+1D46E", "U+1D46F", "U+1D470",
       "U+1D471", "U+1D472", "U+1D473", "U+1D474", "U+1D475", "U+1D476", "U+1D477", "U+1D478", "U+1D479", "U+1D47A",
       "U+1D47B", "U+1D47C", "U+1D47D", "U+1D47E", "U+1D47F", "U+1D480", "U+1D481", "U+1D482", "U+1D483", "U+1D484",
       "U+1D485", "U+1D486", "U+1D487", "U+1D488", "U+1D489", "U+1D48A", "U+1D48B", "U+1D48C", "U+1D48D", "U+1D48E",
       "U+1D48F", "U+1D490", "U+1D491", "U+1D492", "U+1D493", "U+1D494", "U+1D495", "U+1D496", "U+1D497", "U+1D498",
       "U+1D499", "U+1D49A", "U+1D49B", "U+1D49C", "U+1D49E", "U+1D49F", "U+1D4A2", "U+1D4A5", "U+1D4A6", "U+1D4A9",
       "U+1D4AA", "U+1D4AB", "U+1D4AC", "U+1D4AE", "U+1D4AF", "U+1D4B0", "U+1D4B1", "U+1D4B2", "U+1D4B3", "U+1D4B4",
       "U+1D4B5", "U+1D4B6", "U+1D4B7", "U+1D4B8", "U+1D4B9", "U+1D4BB", "U+1D4BD", "U+1D4BE", "U+1D4BF", "U+1D4C0",
       "U+1D4C1", "U+1D4C2", "U+1D4C3", "U+1D4C5", "U+1D4C6", "U+1D4C7", "U+1D4C8", "U+1D4C9", "U+1D4CA", "U+1D4CB",
       "U+1D4CC", "U+1D4CD", "U+1D4CE", "U+1D4CF", "U+1D4D0", "U+1D4D1", "U+1D4D2", "U+1D4D3", "U+1D4D4", "U+1D4D5",
       "U+1D4D6", "U+1D4D7", "U+1D4D8", "U+1D4D9", "U+1D4DA", "U+1D4DB", "U+1D4DC", "U+1D4DD", "U+1D4DE", "U+1D4DF",
       "U+1D4E0", "U+1D4E1", "U+1D4E2", "U+1D4E3", "U+1D4E4", "U+1D4E5", "U+1D4E6", "U+1D4E7", "U+1D4E8", "U+1D4E9",
       "U+1D4EA", "U+1D4EB", "U+1D4EC", "U+1D4ED", "U+1D4EE", "U+1D4EF", "U+1D4F0", "U+1D4F1", "U+1D4F2", "U+1D4F3",
       "U+1D4F4", "U+1D4F5", "U+1D4F6", "U+1D4F7", "U+1D4F8", "U+1D4F9", "U+1D4FA", "U+1D4FB", "U+1D4FC", "U+1D4FD",
       "U+1D4FE", "U+1D4FF", "U+1D500", "U+1D501", "U+1D502", "U+1D503", "U+1D504", "U+1D505", "U+1D507", "U+1D508",
       "U+1D509", "U+1D50A", "U+1D50D", "U+1D50E", "U+1D50F", "U+1D510", "U+1D511", "U+1D512", "U+1D513", "U+1D514",
       "U+1D516", "U+1D517", "U+1D518", "U+1D519", "U+1D51A", "U+1D51B", "U+1D51C", "U+1D51E", "U+1D51F", "U+1D520",
       "U+1D521", "U+1D522", "U+1D523", "U+1D524", "U+1D525", "U+1D526", "U+1D527", "U+1D528", "U+1D529", "U+1D52A",
       "U+1D52B", "U+1D52C", "U+1D52D", "U+1D52E", "U+1D52F", "U+1D530", "U+1D531", "U+1D532", "U+1D533", "U+1D534",
       "U+1D535", "U+1D536", "U+1D537", "U+1D538", "U+1D539", "U+1D53B", "U+1D53C", "U+1D53D", "U+1D53E", "U+1D540",
       "U+1D541", "U+1D542", "U+1D543", "U+1D544", "U+1D546", "U+1D54A", "U+1D54B", "U+1D54C", "U+1D54D", "U+1D54E",
       "U+1D54F", "U+1D550", "U+1D552", "U+1D553", "U+1D554", "U+1D555", "U+1D556", "U+1D557", "U+1D558", "U+1D559",
       "U+1D55A", "U+1D55B", "U+1D55C", "U+1D55D", "U+1D55E", "U+1D55F", "U+1D560", "U+1D561", "U+1D562", "U+1D563",
       "U+1D564", "U+1D565", "U+1D566", "U+1D567", "U+1D568", "U+1D569", "U+1D56A", "U+1D56B", "U+1D56C", "U+1D56D",
       "U+1D56E", "U+1D56F", "U+1D570", "U+1D571", "U+1D572", "U+1D573", "U+1D574", "U+1D575", "U+1D576", "U+1D577",
       "U+1D578", "U+1D579", "U+1D57A", "U+1D57B", "U+1D57C", "U+1D57D", "U+1D57E", "U+1D57F", "U+1D580", "U+1D581",
       "U+1D582", "U+1D583", "U+1D584", "U+1D585", "U+1D586", "U+1D587", "U+1D588", "U+1D589", "U+1D58A", "U+1D58B",
       "U+1D58C", "U+1D58D", "U+1D58E", "U+1D58F", "U+1D590", "U+1D591", "U+1D592", "U+1D593", "U+1D594", "U+1D595",
       "U+1D596", "U+1D597", "U+1D598", "U+1D599", "U+1D59A", "U+1D59B", "U+1D59C", "U+1D59D", "U+1D59E", "U+1D59F",
       "U+1D5A0", "U+1D5A1", "U+1D5A2", "U+1D5A3", "U+1D5A4", "U+1D5A5", "U+1D5A6", "U+1D5A7", "U+1D5A8", "U+1D5A9",
       "U+1D5AA", "U+1D5AB", "U+1D5AC", "U+1D5AD", "U+1D5AE", "U+1D5AF", "U+1D5B0", "U+1D5B1", "U+1D5B2", "U+1D5B3",
       "U+1D5B4", "U+1D5B5", "U+1D5B6", "U+1D5B7", "U+1D5B8", "U+1D5B9", "U+1D5BA", "U+1D5BB", "U+1D5BC", "U+1D5BD",
       "U+1D5BE", "U+1D5BF", "U+1D5C0", "U+1D5C1", "U+1D5C2", "U+1D5C3", "U+1D5C4", "U+1D5C5", "U+1D5C6", "U+1D5C7",
       "U+1D5C8", "U+1D5C9", "U+1D5CA", "U+1D5CB", "U+1D5CC", "U+1D5CD", "U+1D5CE", "U+1D5CF", "U+1D5D0", "U+1D5D1",
       "U+1D5D2", "U+1D5D3", "U+1D5D4", "U+1D5D5", "U+1D5D6", "U+1D5D7", "U+1D5D8", "U+1D5D9", "U+1D5DA", "U+1D5DB",
       "U+1D5DC", "U+1D5DD", "U+1D5DE", "U+1D5DF", "U+1D5E0", "U+1D5E1", "U+1D5E2", "U+1D5E3", "U+1D5E4", "U+1D5E5",
       "U+1D5E6", "U+1D5E7", "U+1D5E8", "U+1D5E9", "U+1D5EA", "U+1D5EB", "U+1D5EC", "U+1D5ED", "U+1D5EE", "U+1D5EF",
       "U+1D5F0", "U+1D5F1", "U+1D5F2", "U+1D5F3", "U+1D5F4", "U+1D5F5", "U+1D5F6", "U+1D5F7", "U+1D5F8", "U+1D5F9",
       "U+1D5FA", "U+1D5FB", "U+1D5FC", "U+1D5FD", "U+1D5FE", "U+1D5FF", "U+1D600", "U+1D601", "U+1D602", "U+1D603",
       "U+1D604", "U+1D605", "U+1D606", "U+1D607", "U+1D608", "U+1D609", "U+1D60A", "U+1D60B", "U+1D60C", "U+1D60D",
       "U+1D60E", "U+1D60F", "U+1D610", "U+1D611", "U+1D612", "U+1D613", "U+1D614", "U+1D615", "U+1D616", "U+1D617",
       "U+1D618", "U+1D619", "U+1D61A", "U+1D61B", "U+1D61C", "U+1D61D", "U+1D61E", "U+1D61F", "U+1D620", "U+1D621",
       "U+1D622", "U+1D623", "U+1D624", "U+1D625", "U+1D626", "U+1D627", "U+1D628", "U+1D629", "U+1D62A", "U+1D62B",
       "U+1D62C", "U+1D62D", "U+1D62E", "U+1D62F", "U+1D630", "U+1D631", "U+1D632", "U+1D633", "U+1D634", "U+1D635",
       "U+1D636", "U+1D637", "U+1D638", "U+1D639", "U+1D63A", "U+1D63B", "U+1D63C", "U+1D63D", "U+1D63E", "U+1D63F",
       "U+1D640", "U+1D641", "U+1D642", "U+1D643", "U+1D644", "U+1D645", "U+1D646", "U+1D647", "U+1D648", "U+1D649",
       "U+1D64A", "U+1D64B", "U+1D64C", "U+1D64D", "U+1D64E", "U+1D64F", "U+1D650", "U+1D651", "U+1D652", "U+1D653",
       "U+1D654", "U+1D655", "U+1D656", "U+1D657", "U+1D658", "U+1D659", "U+1D65A", "U+1D65B", "U+1D65C", "U+1D65D",
       "U+1D65E", "U+1D65F", "U+1D660", "U+1D661", "U+1D662", "U+1D663", "U+1D664", "U+1D665", "U+1D666", "U+1D667",
       "U+1D668", "U+1D669", "U+1D66A", "U+1D66B", "U+1D66C", "U+1D66D", "U+1D66E", "U+1D66F", "U+1D670", "U+1D671",
       "U+1D672", "U+1D673", "U+1D674", "U+1D675", "U+1D676", "U+1D677", "U+1D678", "U+1D679", "U+1D67A", "U+1D67B",
       "U+1D67C", "U+1D67D", "U+1D67E", "U+1D67F", "U+1D680", "U+1D681", "U+1D682", "U+1D683", "U+1D684", "U+1D685",
       "U+1D686", "U+1D687", "U+1D688", "U+1D689", "U+1D68A", "U+1D68B", "U+1D68C", "U+1D68D", "U+1D68E", "U+1D68F",
       "U+1D690", "U+1D691", "U+1D692", "U+1D693", "U+1D694", "U+1D695", "U+1D696", "U+1D697", "U+1D698", "U+1D699",
       "U+1D69A", "U+1D69B", "U+1D69C", "U+1D69D", "U+1D69E", "U+1D69F", "U+1D6A0", "U+1D6A1", "U+1D6A2", "U+1D6A3",
       "U+1D6A4", "U+1D6A5", "U+1D6A8", "U+1D6A9", "U+1D6AA", "U+1D6AB", "U+1D6AC", "U+1D6AD", "U+1D6AE", "U+1D6AF",
       "U+1D6B0", "U+1D6B1", "U+1D6B2", "U+1D6B3", "U+1D6B4", "U+1D6B5", "U+1D6B6", "U+1D6B7", "U+1D6B8", "U+1D6B9",
       "U+1D6BA", "U+1D6BB", "U+1D6BC", "U+1D6BD", "U+1D6BE", "U+1D6BF", "U+1D6C0", "U+1D6C2", "U+1D6C3", "U+1D6C4",
       "U+1D6C5", "U+1D6C6", "U+1D6C7", "U+1D6C8", "U+1D6C9", "U+1D6CA", "U+1D6CB", "U+1D6CC", "U+1D6CD", "U+1D6CE",
       "U+1D6CF", "U+1D6D0", "U+1D6D1", "U+1D6D2", "U+1D6D3", "U+1D6D4", "U+1D6D5", "U+1D6D6", "U+1D6D7", "U+1D6D8",
       "U+1D6D9", "U+1D6DA", "U+1D6DC", "U+1D6DD", "U+1D6DE", "U+1D6DF", "U+1D6E0", "U+1D6E1", "U+1D6E2", "U+1D6E3",
       "U+1D6E4", "U+1D6E5", "U+1D6E6", "U+1D6E7", "U+1D6E8", "U+1D6E9", "U+1D6EA", "U+1D6EB", "U+1D6EC", "U+1D6ED",
       "U+1D6EE", "U+1D6EF", "U+1D6F0", "U+1D6F1", "U+1D6F2", "U+1D6F3", "U+1D6F4", "U+1D6F5", "U+1D6F6", "U+1D6F7",
       "U+1D6F8", "U+1D6F9", "U+1D6FA", "U+1D6FC", "U+1D6FD", "U+1D6FE", "U+1D6FF", "U+1D700", "U+1D701", "U+1D702",
       "U+1D703", "U+1D704", "U+1D705", "U+1D706", "U+1D707", "U+1D708", "U+1D709", "U+1D70A", "U+1D70B", "U+1D70C",
       "U+1D70D", "U+1D70E", "U+1D70F", "U+1D710", "U+1D711", "U+1D712", "U+1D713", "U+1D714", "U+1D716", "U+1D717",
       "U+1D718", "U+1D719", "U+1D71A", "U+1D71B", "U+1D71C", "U+1D71D", "U+1D71E", "U+1D71F", "U+1D720", "U+1D721",
       "U+1D722", "U+1D723", "U+1D724", "U+1D725", "U+1D726", "U+1D727", "U+1D728", "U+1D729", "U+1D72A", "U+1D72B",
       "U+1D72C", "U+1D72D", "U+1D72E", "U+1D72F", "U+1D730", "U+1D731", "U+1D732", "U+1D733", "U+1D734", "U+1D736",
       "U+1D737", "U+1D738", "U+1D739", "U+1D73A", "U+1D73B", "U+1D73C", "U+1D73D", "U+1D73E", "U+1D73F", "U+1D740",
       "U+1D741", "U+1D742", "U+1D743", "U+1D744", "U+1D745", "U+1D746", "U+1D747", "U+1D748", "U+1D749", "U+1D74A",
       "U+1D74B", "U+1D74C", "U+1D74D", "U+1D74E", "U+1D750", "U+1D751", "U+1D752", "U+1D753", "U+1D754", "U+1D755",
       "U+1D756", "U+1D757", "U+1D758", "U+1D759", "U+1D75A", "U+1D75B", "U+1D75C", "U+1D75D", "U+1D75E", "U+1D75F",
       "U+1D760", "U+1D761", "U+1D762", "U+1D763", "U+1D764", "U+1D765", "U+1D766", "U+1D767", "U+1D768", "U+1D769",
       "U+1D76A", "U+1D76B", "U+1D76C", "U+1D76D", "U+1D76E", "U+1D770", "U+1D771", "U+1D772", "U+1D773", "U+1D774",
       "U+1D775", "U+1D776", "U+1D777", "U+1D778", "U+1D779", "U+1D77A", "U+1D77B", "U+1D77C", "U+1D77D", "U+1D77E",
       "U+1D77F", "U+1D780", "U+1D781", "U+1D782", "U+1D783", "U+1D784", "U+1D785", "U+1D786", "U+1D787", "U+1D788",
       "U+1D78A", "U+1D78B", "U+1D78C", "U+1D78D", "U+1D78E", "U+1D78F", "U+1D790", "U+1D791", "U+1D792", "U+1D793",
       "U+1D794", "U+1D795", "U+1D796", "U+1D797", "U+1D798", "U+1D799", "U+1D79A", "U+1D79B", "U+1D79C", "U+1D79D",
       "U+1D79E", "U+1D79F", "U+1D7A0", "U+1D7A1", "U+1D7A2", "U+1D7A3", "U+1D7A4", "U+1D7A5", "U+1D7A6", "U+1D7A7",
       "U+1D7A8", "U+1D7AA", "U+1D7AB", "U+1D7AC", "U+1D7AD", "U+1D7AE", "U+1D7AF", "U+1D7B0", "U+1D7B1", "U+1D7B2",
       "U+1D7B3", "U+1D7B4", "U+1D7B5", "U+1D7B6", "U+1D7B7", "U+1D7B8", "U+1D7B9", "U+1D7BA", "U+1D7BB", "U+1D7BC",
       "U+1D7BD", "U+1D7BE", "U+1D7BF", "U+1D7C0", "U+1D7C1", "U+1D7C2", "U+1D7C4", "U+1D7C5", "U+1D7C6", "U+1D7C7",
       "U+1D7C8", "U+1D7C9", "U+1D7CA", "U+1D7CB", "U+1DF00", "U+1DF01", "U+1DF02", "U+1DF03", "U+1DF04", "U+1DF05",
       "U+1DF06", "U+1DF07", "U+1DF08", "U+1DF09", "U+1DF0B", "U+1DF0C", "U+1DF0D", "U+1DF0E", "U+1DF0F", "U+1DF10",
       "U+1DF11", "U+1DF12", "U+1DF13", "U+1DF14", "U+1DF15", "U+1DF16", "U+1DF17", "U+1DF18", "U+1DF19", "U+1DF1A",
       "U+1DF1B", "U+1DF1C", "U+1DF1D", "U+1DF1E", "U+1DF25", "U+1DF26", "U+1DF27", "U+1DF28", "U+1DF29", "U+1DF2A",
       "U+1F130", "U+1F131", "U+1F132", "U+1F133", "U+1F134", "U+1F135", "U+1F136", "U+1F137", "U+1F138", "U+1F139",
       "U+1F13A", "U+1F13B", "U+1F13C", "U+1F13D", "U+1F13E", "U+1F13F", "U+1F140", "U+1F141", "U+1F142", "U+1F143",
       "U+1F144", "U+1F145", "U+1F146", "U+1F147", "U+1F148", "U+1F149", "U+1F150", "U+1F151", "U+1F152", "U+1F153",
       "U+1F154", "U+1F155", "U+1F156", "U+1F157", "U+1F158", "U+1F159", "U+1F15A", "U+1F15B", "U+1F15C", "U+1F15D",
       "U+1F15E", "U+1F15F", "U+1F160", "U+1F161", "U+1F162", "U+1F163", "U+1F164", "U+1F165", "U+1F166", "U+1F167",
       "U+1F168", "U+1F169", "U+1F170", "U+1F171", "U+1F172", "U+1F173", "U+1F174", "U+1F175", "U+1F176", "U+1F177",
       "U+1F178", "U+1F179", "U+1F17A", "U+1F17B", "U+1F17C", "U+1F17D", "U+1F17E", "U+1F17F", "U+1F180", "U+1F181",
       "U+1F182", "U+1F183", "U+1F184", "U+1F185", "U+1F186", "U+1F187", "U+1F188", "U+1F189" }

\* the case-ignorable characters, which the final-sigma rule skips
CaseIgnorable ==
    {  "'", ".", ":", "^", "U+0060", "U+00A8", "U+00AD", "U+00AF", "U+00B4", "U+00B7",
       "U+00B8", "U+02B0", "U+02B1", "U+02B2", "U+02B3", "U+02B4", "U+02B5", "U+02B6", "U+02B7", "U+02B8",
       "U+02B9", "U+02BA", "U+02BB", "U+02BC", "U+02BD", "U+02BE", "U+02BF", "U+02C0", "U+02C1", "U+02C2",
       "U+02C3", "U+02C4", "U+02C5", "U+02C6", "U+02C7", "U+02C8", "U+02C9", "U+02CA", "U+02CB", "U+02CC",
       "U+02CD", "U+02CE", "U+02CF", "U+02D0", "U+02D1", "U+02D2", "U+02D3", "U+02D4", "U+02D5", "U+02D6",
       "U+02D7", "U+02D8", "U+02D9", "U+02DA", "U+02DB", "U+02DC", "U+02DD", "U+02DE", "U+02DF", "U+02E0",
       "U+02E1", "U+02E2", "U+02E3", "U+02E4", "U+02E5", "U+02E6", "U+02E7", "U+02E8", "U+02E9", "U+02EA",
       "U+02EB", "U+02EC", "U+02ED", "U+02EE", "U+02EF", "U+02F0", "U+02F1", "U+02F2", "U+02F3", "U+02F4",
       "U+02F5", "U+02F6", "U+02F7", "U+02F8", "U+02F9", "U+02FA", "U+02FB", "U+02FC", "U+02FD", "U+02FE",
       "U+02FF", "U+0300", "U+0301", "U+0302", "U+0303", "U+0304", "U+0305", "U+0306", "U+0307", "U+0308",
       "U+0309", "U+030A", "U+030B", "U+030C", "U+030D", "U+030E", "U+030F", "U+0310", "U+0311", "U+0312",
       "U+0313", "U+0314", "U+0315", "U+0316", "U+0317", "U+0318", "U+0319", "U+031A", "U+031B", "U+031C",
       "U+031D", "U+031E", "U+031F", "U+0320", "U+0321", "U+0322", "U+0323", "U+0324", "U+0325", "U+0326",
       "U+0327", "U+0328", "U+0329", "U+032A", "U+032B", "U+032C", "U+032D", "U+032E", "U+032F", "U+0330",
       "U+0331", "U+0332", "U+0333", "U+0334", "U+0335", "U+0336", "U+0337", "U+0338", "U+0339", "U+033A",
       "U+033B", "U+033C", "U+033D", "U+033E", "U+033F", "U+0340", "U+0341", "U+0342", "U+0343", "U+0344",
       "U+0345", "U+0346", "U+0347", "U+0348", "U+0349", "U+034A", "U+034B", "U+034C", "U+034D", "U+034E",
       "U+034F", "U+0350", "U+0351", "U+0352", "U+0353", "U+0354", "U+0355", "U+0356", "U+0357", "U+0358",
       "U+0359", "U+035A", "U+035B", "U+035C", "U+035D", "U+035E", "U+035F", "U+0360", "U+0361", "U+0362",
       "U+0363", "U+0364", "U+0365", "U+0366", "U+0367", "U+0368", "U+0369", "U+036A", "U+036B", "U+036C",
       "U+036D", "U+036E", "U+036F", "U+0374", "U+0375", "U+037A", "U+0384", "U+0385", "U+0387", "U+0483",
       "U+0484", "U+0485", "U+0486", "U+0487", "U+0488", "U+0489", "U+0559", "U+055F", "U+0591", "U+0592",
       "U+0593", "U+0594", "U+0595", "U+0596", "U+0597", "U+0598", "U+0599", "U+059A", "U+059B", "U+059C",
       "U+059D", "U+059E", "U+059F", "U+05A0", "U+05A1", "U+05A2", "U+05A3", "U+05A4", "U+05A5", "U+05A6",
       "U+05A7", "U+05A8", "U+05A9", "U+05AA", "U+05AB", "U+05AC", "U+05AD", "U+05AE", "U+05AF", "U+05B0",
       "U+05B1", "U+05B2", "U+05B3", "U+05B4", "U+05B5", "U+05B6", "U+05B7", "U+05B8", "U+05B9", "U+05BA",
       "U+05BB", "U+05BC", "U+05BD", "U+05BF", "U+05C1", "U+05C2", "U+05C4", "U+05C5", "U+05C7", "U+05F4",
       "U+0600", "U+0601", "U+0602", "U+0603", "U+0604", "U+0605", "U+0610", "U+0611", "U+0612", "U+0613",
       "U+0614", "U+0615", "U+0616", "U+0617", "U+0618", "U+0619", "U+061A", "U+061C", "U+0640", "U+064B",
       "U+064C", "U+064D", "U+064E", "U+064F", "U+0650", "U+0651", "U+0652", "U+0653", "U+0654", "U+0655",
       "U+0656", "U+0657", "U+0658", "U+0659", "U+065A", "U+065B", "U+065C", "U+065D", "U+065E", "U+065F",
       "U+0670", "U+06D6", "U+06D7", "U+06D8", "U+06D9", "U+06DA", "U+06DB", "U+06DC", "U+06DD", "U+06DF",
       "U+06E0", "U+06E1", "U+06E2", "U+06E3", "U+06E4", "U+06E5", "U+06E6", "U+06E7", "U+06E8", "U+06EA",
       "U+06EB", "U+06EC", "U+06ED", "U+070F", "U+0711", "U+0730", "U+0731", "U+0732", "U+0733", "U+0734",
       "U+0735", "U+0736", "U+0737", "U+0738", "U+0739", "U+073A", "U+073B", "U+073C", "U+073D", "U+073E",
       "U+073F", "U+0740", "U+0741", "U+0742", "U+0743", "U+0744", "U+0745", "U+0746", "U+0747", "U+0748",
       "U+0749", "U+074A", "U+07A6", "U+07A7", "U+07A8", "U+07A9", "U+07AA", "U+07AB", "U+07AC", "U+07AD",
       "U+07AE", "U+07AF", "U+07B0", "U+07EB", "U+07EC", "U+07ED", "U+07EE", "U+07EF", "U+07F0", "U+07F1",
       "U+07F2", "U+07F3", "U+07F4", "U+07F5", "U+07FA", "U+07FD", "U+0816", "U+0817", "U+0818", "U+0819",
       "U+081A", "U+081B", "U+081C", "U+081D", "U+081E", "U+081F", "U+0820", "U+0821", "U+0822", "U+0823",
       "U+0824", "U+0825", "U+0826", "U+0827", "U+0828", "U+0829", "U+082A", "U+082B", "U+082C", "U+082D",
       "U+0859", "U+085A", "U+085B", "U+0888", "U+0890", "U+0891", "U+0897", "U+0898", "U+0899", "U+089A",
       "U+089B", "U+089C", "U+089D", "U+089E", "U+089F", "U+08C9", "U+08CA", "U+08CB", "U+08CC", "U+08CD",
       "U+08CE", "U+08CF", "U+08D0", "U+08D1", "U+08D2", "U+08D3", "U+08D4", "U+08D5", "U+08D6", "U+08D7",
       "U+08D8", "U+08D9", "U+08DA", "U+08DB", "U+08DC", "U+08DD", "U+08DE", "U+08DF", "U+08E0", "U+08E1",
       "U+08E2", "U+08E3", "U+08E4", "U+08E5", "U+08E6", "U+08E7", "U+08E8", "U+08E9", "U+08EA", "U+08EB",
       "U+08EC", "U+08ED", "U+08EE", "U+08EF", "U+08F0", "U+08F1", "U+08F2", "U+08F3", "U+08F4", "U+08F5",
       "U+08F6", "U+08F7", "U+08F8", "U+08F9", "U+08FA", "U+08FB", "U+08FC", "U+08FD", "U+08FE", "U+08FF",
       "U+0900", "U+0901", "U+0902", "U+093A", "U+093C", "U+0941", "U+0942", "U+0943", "U+0944", "U+0945",
       "U+0946", "U+0947", "U+0948", "U+094D", "U+0951", "U+0952", "U+0953", "U+0954", "U+0955", "U+0956",
       "U+0957", "U+0962", "U+0963", "U+0971", "U+0981", "U+09BC", "U+09C1", "U+09C2", "U+09C3", "U+09C4",
       "U+09CD", "U+09E2", "U+09E3", "U+09FE", "U+0A01", "U+0A02", "U+0A3C", "U+0A41", "U+0A42", "U+0A47",
       "U+0A48", "U+0A4B", "U+0A4C", "U+0A4D", "U+0A51", "U+0A70", "U+0A71", "U+0A75", "U+0A81", "U+0A82",
       "U+0ABC", "U+0AC1", "U+0AC2", "U+0AC3", "U+0AC4", "U+0AC5", "U+0AC7", "U+0AC8", "U+0ACD", "U+0AE2",
       "U+0AE3", "U+0AFA", "U+0AFB", "U+0AFC", "U+0AFD", "U+0AFE", "U+0AFF", "U+0B01", "U+0B3C", "U+0B3F",
       "U+0B41", "U+0B42", "U+0B43", "U+0B44", "U+0B4D", "U+0B55", "U+0B56", "U+0B62", "U+0B63", "U+0B82",
       "U+0BC0", "U+0BCD", "U+0C00", "U+0C04", "U+0C3C", "U+0C3E", "U+0C3F", "U+0C40", "U+0C46", "U+0C47",
       "U+0C48", "U+0C4A", "U+0C4B", "U+0C4C", "U+0C4D", "U+0C55", "U+0C56", "U+0C62", "U+0C63", "U+0C81",
       "U+0CBC", "U+0CBF", "U+0CC6", "U+0CCC", "U+0CCD", "U+0CE2", "U+0CE3", "U+0D00", "U+0D01", "U+0D3B",
       "U+0D3C", "U+0D41", "U+0D42", "U+0D43", "U+0D44", "U+0D4D", "U+0D62", "U+0D63", "U+0D81", "U+0DCA",
       "U+0DD2", "U+0DD3", "U+0DD4", "U+0DD6", "U+0E31", "U+0E34", "U+0E35", "U+0E36", "U+0E37", "U+0E38",
       "U+0E39", "U+0E3A", "U+0E46", "U+0E47", "U+0E48", "U+0E49", "U+0E4A", "U+0E4B", "U+0E4C", "U+0E4D",
       "U+0E4E", "U+0EB1", "U+0EB4", "U+0EB5", "U+0EB6", "U+0EB7", "U+0EB8", "U+0EB9", "U+0EBA", "U+0EBB",
       "U+0EBC", "U+0EC6", "U+0EC8", "U+0EC9", "U+0ECA", "U+0ECB", "U+0ECC", "U+0ECD", "U+0ECE", "U+0F18",
       "U+0F19", "U+0F35", "U+0F37", "U+0F39", "U+0F71", "U+0F72", "U+0F73", "U+0F74", "U+0F75", "U+0F76",
       "U+0F77", "U+0F78", "U+0F79", "U+0F7A", "U+0F7B", "U+0F7C", "U+0F7D", "U+0F7E", "U+0F80", "U+0F81",
       "U+0F82", "U+0F83", "U+0F84", "U+0F86", "U+0F87", "U+0F8D", "U+0F8E", "U+0F8F", "U+0F90", "U+0F91",
       "U+0F92", "U+0F93", "U+0F94", "U+0F95", "U+0F96", "U+0F97", "U+0F99", "U+0F9A", "U+0F9B", "U+0F9C",
       "U+0F9D", "U+0F9E", "U+0F9F", "U+0FA0", "U+0FA1", "U+0FA2", "U+0FA3", "U+0FA4", "U+0FA5", "U+0FA6",
       "U+0FA7", "U+0FA8", "U+0FA9", "U+0FAA", "U+0FAB", "U+0FAC", "U+0FAD", "U+0FAE", "U+0FAF", "U+0FB0",
       "U+0FB1", "U+0FB2", "U+0FB3", "U+0FB4", "U+0FB5", "U+0FB6", "U+0FB7", "U+0FB8", "U+0FB9", "U+0FBA",
       "U+0FBB", "U+0FBC", "U+0FC6", "U+102D", "U+102E", "U+102F", "U+1030", "U+1032", "U+1033", "U+1034",
       "U+1035", "U+1036", "U+1037", "U+1039", "U+103A", "U+103D", "U+103E", "U+1058", "U+1059", "U+105E",
       "U+105F", "U+1060", "U+1071", "U+1072", "U+1073", "U+1074", "U+1082", "U+1085", "U+1086", "U+108D",
       "U+109D", "U+10FC", "U+135D", "U+135E", "U+135F", "U+1712", "U+1713", "U+1714", "U+1732", "U+1733",
       "U+1752", "U+1753", "U+1772", "U+1773", "U+17B4", "U+17B5", "U+17B7", "U+17B8", "U+17B9", "U+17BA",
       "U+17BB", "U+17BC", "U+17BD", "U+17C6", "U+17C9", "U+17CA", "U+17CB", "U+17CC", "U+17CD", "U+17CE",
       "U+17CF", "U+17D0", "U+17D1", "U+17D2", "U+17D3", "U+17D7", "U+17DD", "U+180B", "U+180C", "U+180D",
       "U+180E", "U+180F", "U+1843", "U+1885", "U+1886", "U+18A9", "U+1920", "U+1921", "U+1922", "U+1927",
       "U+1928", "U+1932", "U+1939", "U+193A", "U+193B", "U+1A17", "U+1A18", "U+1A1B", "U+1A56", "U+1A58",
       "U+1A59", "U+1A5A", "U+1A5B", "U+1A5C", "U+1A5D", "U+1A5E", "U+1A60", "U+1A62", "U+1A65", "U+1A66",
       "U+1A67", "U+1A68", "U+1A69", "U+1A6A", "U+1A6B", "U+1A6C", "U+1A73", "U+1A74", "U+1A75", "U+1A76",
       "U+1A77", "U+1A78", "U+1A79", "U+1A7A", "U+1A7B", "U+1A7C", "U+1A7F", "U+1AA7", "U+1AB0", "U+1AB1",
       "U+1AB2", "U+1AB3", "U+1AB4", "U+1AB5", "U+1AB6", "U+1AB7", "U+1AB8", "U+1AB9", "U+1ABA", "U+1ABB",
       "U+1ABC", "U+1ABD", "U+1ABE", "U+1ABF", "U+1AC0", "U+1AC1", "U+1AC2", "U+1AC3", "U+1AC4", "U+1AC5",
       "U+1AC6", "U+1AC7", "U+1AC8", "U+1AC9", "U+1ACA", "U+1ACB", "U+1ACC", "U+1ACD", "U+1ACE", "U+1ACF",
       "U+1AD0", "U+1AD1", "U+1AD2", "U+1AD3", "U+1AD4", "U+1AD5", "U+1AD6", "U+1AD7", "U+1AD8", "U+1AD9",
       "U+1ADA", "U+1ADB", "U+1ADC", "U+1ADD", "U+1AE0", "U+1AE1", "U+1AE2", "U+1AE3", "U+1AE4", "U+1AE5",
       "U+1AE6", "U+1AE7", "U+1AE8", "U+1AE9", "U+1AEA", "U+1AEB", "U+1B00", "U+1B01", "U+1B02", "U+1B03",
       "U+1B34", "U+1B36", "U+1B37", "U+1B38", "U+1B39", "U+1B3A", "U+1B3C", "U+1B42", "U+1B6B", "U+1B6C",
       "U+1B6D", "U+1B6E", "U+1B6F", "U+1B70", "U+1B71", "U+1B72", "U+1B73", "U+1B80", "U+1B81", "U+1BA2",
       "U+1BA3", "U+1BA4", "U+1BA5", "U+1BA8", "U+1BA9", "U+1BAB", "U+1BAC", "U+1BAD", "U+1BE6", "U+1BE8",
       "U+1BE9", "U+1BED", "U+1BEF", "U+1BF0", "U+1BF1", "U+1C2C", "U+1C2D", "U+1C2E", "U+1C2F", "U+1C30",
       "U+1C31", "U+1C32", "U+1C33", "U+1C36", "U+1C37", "U+1C78", "U+1C79", "U+1C7A", "U+1C7B", "U+1C7C",
       "U+1C7D", "U+1CD0", "U+1CD1", "U+1CD2", "U+1CD4", "U+1CD5", "U+1CD6", "U+1CD7", "U+1CD8", "U+1CD9",
       "U+1CDA", "U+1CDB", "U+1CDC", "U+1CDD", "U+1CDE", "U+1CDF", "U+1CE0", "U+1CE2", "U+1CE3", "U+1CE4",
       "U+1CE5", "U+1CE6", "U+1CE7", "U+1CE8", "U+1CED", "U+1CF4", "U+1CF8", "U+1CF9", "U+1D2C", "U+1D2D",
       "U+1D2E", "U+1D2F", "U+1D30", "U+1D31", "U+1D32", "U+1D33", "U+1D34", "U+1D35", "U+1D36", "U+1D37",
       "U+1D38", "U+1D39", "U+1D3A", "U+1D3B", "U+1D3C", "U+1D3D", "U+1D3E", "U+1D3F", "U+1D40", "U+1D41",
       "U+1D42", "U+1D43", "U+1D44", "U+1D45", "U+1D46", "U+1D47", "U+1D48", "U+1D49", "U+1D4A", "U+1D4B",
       "U+1D4C", "U+1D4D", "U+1D4E", "U+1D4F", "U+1D50", "U+1D51", "U+1D52", "U+1D53", "U+1D54", "U+1D55",
       "U+1D56", "U+1D57", "U+1D58", "U+1D59", "U+1D5A", "U+1D5B", "U+1D5C", "U+1D5D", "U+1D5E", "U+1D5F",
       "U+1D60", "U+1D61", "U+1D62", "U+1D63", "U+1D64", "U+1D65", "U+1D66", "U+1D67", "U+1D68", "U+1D69",
       "U+1D6A", "U+1D78", "U+1D9B", "U+1D9C", "U+1D9D", "U+1D9E", "U+1D9F", "U+1DA0", "U+1DA1", "U+1DA2",
       "U+1DA3", "U+1DA4", "U+1DA5", "U+1DA6", "U+1DA7", "U+1DA8", "U+1DA9", "U+1DAA", "U+1DAB", "U+1DAC",
       "U+1DAD", "U+1DAE", "U+1DAF", "U+1DB0", "U+1DB1", "U+1DB2", "U+1DB3", "U+1DB4", "U+1DB5", "U+1DB6",
       "U+1DB7", "U+1DB8", "U+1DB9", "U+1DBA", "U+1DBB", "U+1DBC", "U+1DBD", "U+1DBE", "U+1DBF", "U+1DC0",
       "U+1DC1", "U+1DC2", "U+1DC3", "U+1DC4", "U+1DC5", "U+1DC6", "U+1DC7", "U+1DC8", "U+1DC9", "U+1DCA",
       "U+1DCB", "U+1DCC", "U+1DCD", "U+1DCE", "U+1DCF", "U+1DD0", "U+1DD1", "U+1DD2", "U+1DD3", "U+1DD4",
       "U+1DD5", "U+1DD6", "U+1DD7", "U+1DD8", "U+1DD9", "U+1DDA", "U+1DDB", "U+1DDC", "U+1DDD", "U+1DDE",
       "U+1DDF", "U+1DE0", "U+1DE1", "U+1DE2", "U+1DE3", "U+1DE4", "U+1DE5", "U+1DE6", "U+1DE7", "U+1DE8",
       "U+1DE9", "U+1DEA", "U+1DEB", "U+1DEC", "U+1DED", "U+1DEE", "U+1DEF", "U+1DF0", "U+1DF1", "U+1DF2",
       "U+1DF3", "U+1DF4", "U+1DF5", "U+1DF6", "U+1DF7", "U+1DF8", "U+1DF9", "U+1DFA", "U+1DFB", "U+1DFC",
       "U+1DFD", "U+1DFE", "U+1DFF", "U+1FBD", "U+1FBF", "U+1FC0", "U+1FC1", "U+1FCD", "U+1FCE", "U+1FCF",
       "U+1FDD", "U+1FDE", "U+1FDF", "U+1FED", "U+1FEE", "U+1FEF", "U+1FFD", "U+1FFE", "U+200B", "U+200C",
       "U+200D", "U+200E", "U+200F", "U+2018", "U+2019", "U+2024", "U+2027", "U+202A", "U+202B", "U+202C",
       "U+202D", "U+202E", "U+2060", "U+2061", "U+2062", "U+2063", "U+2064", "U+2066", "U+2067", "U+2068",
       "U+2069", "U+206A", "U+206B", "U+206C", "U+206D", "U+206E", "U+206F", "U+2071", "U+207F", "U+2090",
       "U+2091", "U+2092", "U+2093", "U+2094", "U+2095", "U+2096", "U+2097", "U+2098", "U+2099", "U+209A",
       "U+209B", "U+209C", "U+20D0", "U+20D1", "U+20D2", "U+20D3", "U+20D4", "U+20D5", "U+20D6", "U+20D7",
       "U+20D8", "U+20D9", "U+20DA", "U+20DB", "U+20DC", "U+20DD", "U+20DE", "U+20DF", "U+20E0", "U+20E1",
       "U+20E2", "U+20E3", "U+20E4", "U+20E5", "U+20E6", "U+20E7", "U+20E8", "U+20E9", "U+20EA", "U+20EB",
       "U+20EC", "U+20ED", "U+20EE", "U+20EF", "U+20F0", "U+2C7C", "U+2C7D", "U+2CEF", "U+2CF0", "U+2CF1",
       "U+2D6F", "U+2D7F", "U+2DE0", "U+2DE1", "U+2DE2", "U+2DE3", "U+2DE4", "U+2DE5", "U+2DE6", "U+2DE7",
       "U+2DE8", "U+2DE9", "U+2DEA", "U+2DEB", "U+2DEC", "U+2DED", "U+2DEE", "U+2DEF", "U+2DF0", "U+2DF1",
       "U+2DF2", "U+2DF3", "U+2DF4", "U+2DF5", "U+2DF6", "U+2DF7", "U+2DF8", "U+2DF9", "U+2DFA", "U+2DFB",
       "U+2DFC", "U+2DFD", "U+2DFE", "U+2DFF", "U+2E2F", "U+3005", "U+302A", "U+302B", "U+302C", "U+302D",
       "U+3031", "U+3032", "U+3033", "U+3034", "U+3035", "U+303B", "U+3099", "U+309A", "U+309B", "U+309C",
       "U+309D", "U+309E", "U+30FC", "U+30FD", "U+30FE", "U+A015", "U+A4F8", "U+A4F9", "U+A4FA", "U+A4FB",
       "U+A4FC", "U+A4FD", "U+A60C", "U+A66F", "U+A670", "U+A671", "U+A672", "U+A674", "U+A675", "U+A676",
       "U+A677", "U+A678", "U+A679", "U+A67A", "U+A67B", "U+A67C", "U+A67D", "U+A67F", "U+A69C", "U+A69D",
       "U+A69E", "U+A69F", "U+A6F0", "U+A6F1", "U+A700", "U+A701", "U+A702", "U+A703", "U+A704", "U+A705",
       "U+A706", "U+A707", "U+A708", "U+A709", "U+A70A", "U+A70B", "U+A70C", "U+A70D", "U+A70E", "U+A70F",
       "U+A710", "U+A711", "U+A712", "U+A713", "U+A714", "U+A715", "U+A716", "U+A717", "U+A718", "U+A719",
       "U+A71A", "U+A71B", "U+A71C", "U+A71D", "U+A71E", "U+A71F", "U+A720", "U+A721", "U+A770", "U+A788",
       "U+A789", "U+A78A", "U+A7F1", "U+A7F2", "U+A7F3", "U+A7F4", "U+A7F8", "U+A7F9", "U+A802", "U+A806",
       "U+A80B", "U+A825", "U+A826", "U+A82C", "U+A8C4", "U+A8C5", "U+A8E0", "U+A8E1", "U+A8E2", "U+A8E3",
       "U+A8E4", "U+A8E5", "U+A8E6", "U+A8E7", "U+A8E8", "U+A8E9", "U+A8EA", "U+A8EB", "U+A8EC", "U+A8ED",
       "U+A8EE", "U+A8EF", "U+A8F0", "U+A8F1", "U+A8FF", "U+A926", "U+A927", "U+A928", "U+A929", "U+A92A",
       "U+A92B", "U+A92C", "U+A92D", "U+A947", "U+A948", "U+A949", "U+A94A", "U+A94B", "U+A94C", "U+A94D",
       "U+A94E", "U+A94F", "U+A950", "U+A951", "U+A980", "U+A981", "U+A982", "U+A9B3", "U+A9B6", "U+A9B7",
       "U+A9B8", "U+A9B9", "U+A9BC", "U+A9BD", "U+A9CF", "U+A9E5", "U+A9E6", "U+AA29", "U+AA2A", "U+AA2B",
       "U+AA2C", "U+AA2D", "U+AA2E", "U+AA31", "U+AA32", "U+AA35", "U+AA36", "U+AA43", "U+AA4C", "U+AA70",
       "U+AA7C", "U+AAB0", "U+AAB2", "U+AAB3", "U+AAB4", "U+AAB7", "U+AAB8", "U+AABE", "U+AABF", "U+AAC1",
       "U+AADD", "U+AAEC", "U+AAED", "U+AAF3", "U+AAF4", "U+AAF6", "U+AB5B", "U+AB5C", "U+AB5D", "U+AB5E",
       "U+AB5F", "U+AB69", "U+AB6A", "U+AB6B", "U+ABE5", "U+ABE8", "U+ABED", "U+FB1E", "U+FBB2", "U+FBB3",
       "U+FBB4", "U+FBB5", "U+FBB6", "U+FBB7", "U+FBB8", "U+FBB9", "U+FBBA", "U+FBBB", "U+FBBC", "U+FBBD",
       "U+FBBE", "U+FBBF", "U+FBC0", "U+FBC1", "U+FBC2", "U+FE00", "U+FE01", "U+FE02", "U+FE03", "U+FE04",
       "U+FE05", "U+FE06", "U+FE07", "U+FE08", "U+FE09", "U+FE0A", "U+FE0B", "U+FE0C", "U+FE0D", "U+FE0E",
       "U+FE0F", "U+FE13", "U+FE20", "U+FE21", "U+FE22", "U+FE23", "U+FE24", "U+FE25", "U+FE26", "U+FE27",
       "U+FE28", "U+FE29", "U+FE2A", "U+FE2B", "U+FE2C", "U+FE2D", "U+FE2E", "U+FE2F", "U+FE52", "U+FE55",
       "U+FEFF", "U+FF07", "U+FF0E", "U+FF1A", "U+FF3E", "U+FF40", "U+FF70", "U+FF9E", "U+FF9F", "U+FFE3",
       "U+FFF9", "U+FFFA", "U+FFFB", "U+101FD", "U+102E0", "U+10376", "U+10377", "U+10378", "U+10379", "U+1037A",
       "U+10780", "U+10781", "U+10782", "U+10783", "U+10784", "U+10785", "U+10787", "U+10788", "U+10789", "U+1078A",
       "U+1078B", "U+1078C", "U+1078D", "U+1078E", "U+1078F", "U+10790", "U+10791", "U+10792", "U+10793", "U+10794",
       "U+10795", "U+10796", "U+10797", "U+10798", "U+10799", "U+1079A", "U+1079B", "U+1079C", "U+1079D", "U+1079E",
       "U+1079F", "U+107A0", "U+107A1", "U+107A2", "U+107A3", "U+107A4", "U+107A5", "U+107A6", "U+107A7", "U+107A8",
       "U+107A9", "U+107AA", "U+107AB", "U+107AC", "U+107AD", "U+107AE", "U+107AF", "U+107B0", "U+107B2", "U+107B3",
       "U+107B4", "U+107B5", "U+107B6", "U+107B7", "U+107B8", "U+107B9", "U+107BA", "U+10A01", "U+10A02", "U+10A03",
       "U+10A05", "U+10A06", "U+10A0C", "U+10A0D", "U+10A0E", "U+10A0F", "U+10A38", "U+10A39", "U+10A3A", "U+10A3F",
       "U+10AE5", "U+10AE6", "U+10D24", "U+10D25", "U+10D26", "U+10D27", "U+10D4E", "U+10D69", "U+10D6A", "U+10D6B",
       "U+10D6C", "U+10D6D", "U+10D6F", "U+10EAB", "U+10EAC", "U+10EC5", "U+10EFA", "U+10EFB", "U+10EFC", "U+10EFD",
       "U+10EFE", "U+10EFF", "U+10F46", "U+10F47", "U+10F48", "U+10F49", "U+10F4A", "U+10F4B", "U+10F4C", "U+10F4D",
       "U+10F4E", "U+10F4F", "U+10F50", "U+10F82", "U+10F83", "U+10F84", "U+10F85", "U+11001", "U+11038", "U+11039",
       "U+1103A", "U+1103B", "U+1103C", "U+1103D", "U+1103E", "U+1103F", "U+11040", "U+11041", "U+11042", "U+11043",
       "U+11044", "U+11045", "U+11046", "U+11070", "U+11073", "U+11074", "U+1107F", "U+11080", "U+11081", "U+110B3",
       "U+110B4", "U+110B5", "U+110B6", "U+110B9", "U+110BA", "U+110BD", "U+110C2", "U+110CD", "U+11100", "U+11101",
       "U+11102", "U+11127", "U+11128", "U+11129", "U+1112A", "U+1112B", "U+1112D", "U+1112E", "U+1112F", "U+11130",
       "U+11131", "U+11132", "U+11133", "U+11134", "U+11173", "U+11180", "U+11181", "U+111B6", "U+111B7", "U+111B8",
       "U+111B9", "U+111BA", "U+111BB", "U+111BC", "U+111BD", "U+111BE", "U+111C9", "U+111CA", "U+111CB", "U+111CC",
       "U+111CF", "U+1122F", "U+11230", "U+11231", "U+11234", "U+11236", "U+11237", "U+1123E", "U+11241", "U+112DF",
       "U+112E3", "U+112E4", "U+112E5", "U+112E6", "U+112E7", "U+112E8", "U+112E9", "U+112EA", "U+11300", "U+11301",
       "U+1133B", "U+1133C", "U+11340", "U+11366", "U+11367", "U+11368", "U+11369", "U+1136A", "U+1136B", "U+1136C",
       "U+11370", "U+11371", "U+11372", "U+11373", "U+11374", "U+113BB", "U+113BC", "U+113BD", "U+113BE", "U+113BF",
       "U+113C0", "U+113CE", "U+113D0", "U+113D2", "U+113E1", "U+113E2", "U+11438", "U+11439", "U+1143A", "U+1143B",
       "U+1143C", "U+1143D", "U+1143E", "U+1143F", "U+11442", "U+11443", "U+11444", "U+11446", "U+1145E", "U+114B3",
       "U+114B4", "U+114B5", "U+114B6", "U+114B7", "U+114B8", "U+114BA", "U+114BF", "U+114C0", "U+114C2", "U+114C3",
       "U+115B2", "U+115B3", "U+115B4", "U+115B5", "U+115BC", "U+115BD", "U+115BF", "U+115C0", "U+115DC", "U+115DD",
       "U+11633", "U+11634", "U+11635", "U+11636", "U+11637", "U+11638", "U+11639", "U+1163A", "U+1163D", "U+1163F",
       "U+11640", "U+116AB", "U+116AD", "U+116B0", "U+116B1", "U+116B2", "U+116B3", "U+116B4", "U+116B5", "U+116B7",
       "U+1171D", "U+1171F", "U+11722", "U+11723", "U+11724", "U+11725", "U+11727", "U+11728", "U+11729", "U+1172A",
       "U+1172B", "U+1182F", "U+11830", "U+11831", "U+11832", "U+11833", "U+11834", "U+11835", "U+11836", "U+11837",
       "U+11839", "U+1183A", "U+1193B", "U+1193C", "U+1193E", "U+11943", "U+119D4", "U+119D5", "U+119D6", "U+119D7",
       "U+119DA", "U+119DB", "U+119E0", "U+11A01", "U+11A02", "U+11A03", "U+11A04", "U+11A05", "U+11A06", "U+11A07",
       "U+11A08", "U+11A09", "U+11A0A", "U+11A33", "U+11A34", "U+11A35", "U+11A36", "U+11A37", "U+11A38", "U+11A3B",
       "U+11A3C", "U+11A3D", "U+11A3E", "U+11A47", "U+11A51", "U+11A52", "U+11A53", "U+11A54", "U+11A55", "U+11A56",
       "U+11A59", "U+11A5A", "U+11A5B", "U+11A8A", "U+11A8B", "U+11A8C", "U+11A8D", "U+11A8E", "U+11A8F", "U+11A90",
       "U+11A91", "U+11A92", "U+11A93", "U+11A94", "U+11A95", "U+11A96", "U+11A98", "U+11A99", "U+11B60", "U+11B62",
       "U+11B63", "U+11B64", "U+11B66", "U+11C30", "U+11C31", "U+11C32", "U+11C33", "U+11C34", "U+11C35", "U+11C36",
       "U+11C38", "U+11C39", "U+11C3A", "U+11C3B", "U+11C3C", "U+11C3D", "U+11C3F", "U+11C92", "U+11C93", "U+11C94",
       "U+11C95", "U+11C96", "U+11C97", "U+11C98", "U+11C99", "U+11C9A", "U+11C9B", "U+11C9C", "U+11C9D", "U+11C9E",
       "U+11C9F", "U+11CA0", "U+11CA1", "U+11CA2", "U+11CA3", "U+11CA4", "U+11CA5", "U+11CA6", "U+11CA7", "U+11CAA",
       "U+11CAB", "U+11CAC", "U+11CAD", "U+11CAE", "U+11CAF", "U+11CB0", "U+11CB2", "U+11CB3", "U+11CB5", "U+11CB6",
       "U+11D31", "U+11D32", "U+11D33", "U+11D34", "U+11D35", "U+11D36", "U+11D3A", "U+11D3C", "U+11D3D", "U+11D3F",
       "U+11D40", "U+11D41", "U+11D42", "U+11D43", "U+11D44", "U+11D45", "U+11D47", "U+11D90", "U+11D91", "U+11D95",
       "U+11D97", "U+11DD9", "U+11EF3", "U+11EF4", "U+11F00", "U+11F01", "U+11F36", "U+11F37", "U+11F38", "U+11F39",
       "U+11F3A", "U+11F40", "U+11F42", "U+11F5A", "U+13430", "U+13431", "U+13432", "U+13433", "U+13434", "U+13435",
       "U+13436", "U+13437", "U+13438", "U+13439", "U+1343A", "U+1343B", "U+1343C", "U+1343D", "U+1343E", "U+1343F",
       "U+13440", "U+13447", "U+13448", "U+13449", "U+1344A", "U+1344B", "U+1344C", "U+1344D", "U+1344E", "U+1344F",
       "U+13450", "U+13451", "U+13452", "U+13453", "U+13454", "U+13455", "U+1611E", "U+1611F", "U+16120", "U+16121",
       "U+16122", "U+16123", "U+16124", "U+16125", "U+16126", "U+16127", "U+16128", "U+16129", "U+1612D", "U+1612E",
       "U+1612F", "U+16AF0", "U+16AF1", "U+16AF2", "U+16AF3", "U+16AF4", "U+16B30", "U+16B31", "U+16B32", "U+16B33",
       "U+16B34", "U+16B35", "U+16B36", "U+16B40", "U+16B41", "U+16B42", "U+16B43", "U+16D40", "U+16D41", "U+16D42",
       "U+16D6B", "U+16D6C", "U+16F4F", "U+16F8F", "U+16F90", "U+16F91", "U+16F92", "U+16F93", "U+16F94", "U+16F95",
       "U+16F96", "U+16F97", "U+16F98", "U+16F99", "U+16F9A", "U+16F9B", "U+16F9C", "U+16F9D", "U+16F9E", "U+16F9F",
       "U+16FE0", "U+16FE1", "U+16FE3", "U+16FE4", "U+16FF2", "U+16FF3", "U+1AFF0", "U+1AFF1", "U+1AFF2", "U+1AFF3",
       "U+1AFF5", "U+1AFF6", "U+1AFF7", "U+1AFF8", "U+1AFF9", "U+1AFFA", "U+1AFFB", "U+1AFFD", "U+1AFFE", "U+1BC9D",
       "U+1BC9E", "U+1BCA0", "U+1BCA1", "U+1BCA2", "U+1BCA3", "U+1CF00", "U+1CF01", "U+1CF02", "U+1CF03", "U+1CF04",
       "U+1CF05", "U+1CF06", "U+1CF07", "U+1CF08", "U+1CF09", "U+1CF0A", "U+1CF0B", "U+1CF0C", "U+1CF0D", "U+1CF0E",
       "U+1CF0F", "U+1CF10", "U+1CF11", "U+1CF12", "U+1CF13", "U+1CF14", "U+1CF15", "U+1CF16", "U+1CF17", "U+1CF18",
       "U+1CF19", "U+1CF1A", "U+1CF1B", "U+1CF1C", "U+1CF1D", "U+1CF1E", "U+1CF1F", "U+1CF20", "U+1CF21", "U+1CF22",
       "U+1CF23", "U+1CF24", "U+1CF25", "U+1CF26", "U+1CF27", "U+1CF28", "U+1CF29", "U+1CF2A", "U+1CF2B", "U+1CF2C",
       "U+1CF2D", "U+1CF30", "U+1CF31", "U+1CF32", "U+1CF33", "U+1CF34", "U+1CF35", "U+1CF36", "U+1CF37", "U+1CF38",
       "U+1CF39", "U+1CF3A", "U+1CF3B", "U+1CF3C", "U+1CF3D", "U+1CF3E", "U+1CF3F", "U+1CF40", "U+1CF41", "U+1CF42",
       "U+1CF43", "U+1CF44", "U+1CF45", "U+1CF46", "U+1D167", "U+1D168", "U+1D169", "U+1D173", "U+1D174", "U+1D175",
       "U+1D176", "U+1D177", "U+1D178", "U+1D179", "U+1D17A", "U+1D17B", "U+1D17C", "U+1D17D", "U+1D17E", "U+1D17F",
       "U+1D180", "U+1D181", "U+1D182", "U+1D185", "U+1D186", "U+1D187", "U+1D188", "U+1D189", "U+1D18A", "U+1D18B",
       "U+1D1AA", "U+1D1AB", "U+1D1AC", "U+1D1AD", "U+1D242", "U+1D243", "U+1D244", "U+1DA00", "U+1DA01", "U+1DA02",
       "U+1DA03", "U+1DA04", "U+1DA05", "U+1DA06", "U+1DA07", "U+1DA08", "U+1DA09", "U+1DA0A", "U+1DA0B", "U+1DA0C",
       "U+1DA0D", "U+1DA0E", "U+1DA0F", "U+1DA10", "U+1DA11", "U+1DA12", "U+1DA13", "U+1DA14", "U+1DA15", "U+1DA16",
       "U+1DA17", "U+1DA18", "U+1DA19", "U+1DA1A", "U+1DA1B", "U+1DA1C", "U+1DA1D", "U+1DA1E", "U+1DA1F", "U+1DA20",
       "U+1DA21", "U+1DA22", "U+1DA23", "U+1DA24", "U+1DA25", "U+1DA26", "U+1DA27", "U+1DA28", "U+1DA29", "U+1DA2A",
       "U+1DA2B", "U+1DA2C", "U+1DA2D", "U+1DA2E", "U+1DA2F", "U+1DA30", "U+1DA31", "U+1DA32", "U+1DA33", "U+1DA34",
       "U+1DA35", "U+1DA36", "U+1DA3B", "U+1DA3C", "U+1DA3D", "U+1DA3E", "U+1DA3F", "U+1DA40", "U+1DA41", "U+1DA42",
       "U+1DA43", "U+1DA44", "U+1DA45", "U+1DA46", "U+1DA47", "U+1DA48", "U+1DA49", "U+1DA4A", "U+1DA4B", "U+1DA4C",
       "U+1DA4D", "U+1DA4E", "U+1DA4F", "U+1DA50", "U+1DA51", "U+1DA52", "U+1DA53", "U+1DA54", "U+1DA55", "U+1DA56",
       "U+1DA57", "U+1DA58", "U+1DA59", "U+1DA5A", "U+1DA5B", "U+1DA5C", "U+1DA5D", "U+1DA5E", "U+1DA5F", "U+1DA60",
       "U+1DA61", "U+1DA62", "U+1DA63", "U+1DA64", "U+1DA65", "U+1DA66", "U+1DA67", "U+1DA68", "U+1DA69", "U+1DA6A",
       "U+1DA6B", "U+1DA6C", "U+1DA75", "U+1DA84", "U+1DA9B", "U+1DA9C", "U+1DA9D", "U+1DA9E", "U+1DA9F", "U+1DAA1",
       "U+1DAA2", "U+1DAA3", "U+1DAA4", "U+1DAA5", "U+1DAA6", "U+1DAA7", "U+1DAA8", "U+1DAA9", "U+1DAAA", "U+1DAAB",
       "U+1DAAC", "U+1DAAD", "U+1DAAE", "U+1DAAF", "U+1E000", "U+1E001", "U+1E002", "U+1E003", "U+1E004", "U+1E005",
       "U+1E006", "U+1E008", "U+1E009", "U+1E00A", "U+1E00B", "U+1E00C", "U+1E00D", "U+1E00E", "U+1E00F", "U+1E010",
       "U+1E011", "U+1E012", "U+1E013", "U+1E014", "U+1E015", "U+1E016", "U+1E017", "U+1E018", "U+1E01B", "U+1E01C",
       "U+1E01D", "U+1E01E", "U+1E01F", "U+1E020", "U+1E021", "U+1E023", "U+1E024", "U+1E026", "U+1E027", "U+1E028",
       "U+1E029", "U+1E02A", "U+1E030", "U+1E031", "U+1E032", "U+1E033", "U+1E034", "U+1E035", "U+1E036", "U+1E037",
       "U+1E038", "U+1E039", "U+1E03A", "U+1E03B", "U+1E03C", "U+1E03D", "U+1E03E", "U+1E03F", "U+1E040", "U+1E041",
       "U+1E042", "U+1E043", "U+1E044", "U+1E045", "U+1E046", "U+1E047", "U+1E048", "U+1E049", "U+1E04A", "U+1E04B",
       "U+1E04C", "U+1E04D", "U+1E04E", "U+1E04F", "U+1E050", "U+1E051", "U+1E052", "U+1E053", "U+1E054", "U+1E055",
       "U+1E056", "U+1E057", "U+1E058", "U+1E059", "U+1E05A", "U+1E05B", "U+1E05C", "U+1E05D", "U+1E05E", "U+1E05F",
       "U+1E060", "U+1E061", "U+1E062", "U+1E063", "U+1E064", "U+1E065", "U+1E066", "U+1E067", "U+1E068", "U+1E069",
       "U+1E06A", "U+1E06B", "U+1E06C", "U+1E06D", "U+1E08F", "U+1E130", "U+1E131", "U+1E132", "U+1E133", "U+1E134",
       "U+1E135", "U+1E136", "U+1E137", "U+1E138", "U+1E139", "U+1E13A", "U+1E13B", "U+1E13C", "U+1E13D", "U+1E2AE",
       "U+1E2EC", "U+1E2ED", "U+1E2EE", "U+1E2EF", "U+1E4EB", "U+1E4EC", "U+1E4ED", "U+1E4EE", "U+1E4EF", "U+1E5EE",
       "U+1E5EF", "U+1E6E3", "U+1E6E6", "U+1E6EE", "U+1E6EF", "U+1E6F5", "U+1E6FF", "U+1E8D0", "U+1E8D1", "U+1E8D2",
       "U+1E8D3", "U+1E8D4", "U+1E8D5", "U+1E8D6", "U+1E944", "U+1E945", "U+1E946", "U+1E947", "U+1E948", "U+1E949",
       "U+1E94A", "U+1E94B", "U+1F3FB", "U+1F3FC", "U+1F3FD", "U+1F3FE", "U+1F3FF", "U+E0001", "U+E0020", "U+E0021",
       "U+E0022", "U+E0023", "U+E0024", "U+E0025", "U+E0026", "U+E0027", "U+E0028", "U+E0029", "U+E002A", "U+E002B",
       "U+E002C", "U+E002D", "U+E002E", "U+E002F", "U+E0030", "U+E0031", "U+E0032", "U+E0033", "U+E0034", "U+E0035",
       "U+E0036", "U+E0037", "U+E0038", "U+E0039", "U+E003A", "U+E003B", "U+E003C", "U+E003D", "U+E003E", "U+E003F",
       "U+E0040", "U+E0041", "U+E0042", "U+E0043", "U+E0044", "U+E0045", "U+E0046", "U+E0047", "U+E0048", "U+E0049",
       "U+E004A", "U+E004B", "U+E004C", "U+E004D", "U+E004E", "U+E004F", "U+E0050", "U+E0051", "U+E0052", "U+E0053",
       "U+E0054", "U+E0055", "U+E0056", "U+E0057", "U+E0058", "U+E0059", "U+E005A", "U+E005B", "U+E005C", "U+E005D",
       "U+E005E", "U+E005F", "U+E0060", "U+E0061", "U+E0062", "U+E0063", "U+E0064", "U+E0065", "U+E0066", "U+E0067",
       "U+E0068", "U+E0069", "U+E006A", "U+E006B", "U+E006C", "U+E006D", "U+E006E", "U+E006F", "U+E0070", "U+E0071",
       "U+E0072", "U+E0073", "U+E0074", "U+E0075", "U+E0076", "U+E0077", "U+E0078", "U+E0079", "U+E007A", "U+E007B",
       "U+E007C", "U+E007D", "U+E007E", "U+E007F", "U+E0100", "U+E0101", "U+E0102", "U+E0103", "U+E0104", "U+E0105",
       "U+E0106", "U+E0107", "U+E0108", "U+E0109", "U+E010A", "U+E010B", "U+E010C", "U+E010D", "U+E010E", "U+E010F",
       "U+E0110", "U+E0111", "U+E0112", "U+E0113", "U+E0114", "U+E0115", "U+E0116", "U+E0117", "U+E0118", "U+E0119",
       "U+E011A", "U+E011B", "U+E011C", "U+E011D", "U+E011E", "U+E011F", "U+E0120", "U+E0121", "U+E0122", "U+E0123",
       "U+E0124", "U+E0125", "U+E0126", "U+E0127", "U+E0128", "U+E0129", "U+E012A", "U+E012B", "U+E012C", "U+E012D",
       "U+E012E", "U+E012F", "U+E0130", "U+E0131", "U+E0132", "U+E0133", "U+E0134", "U+E0135", "U+E0136", "U+E0137",
       "U+E0138", "U+E0139", "U+E013A", "U+E013B", "U+E013C", "U+E013D", "U+E013E", "U+E013F", "U+E0140", "U+E0141",
       "U+E0142", "U+E0143", "U+E0144", "U+E0145", "U+E0146", "U+E0147", "U+E0148", "U+E0149", "U+E014A", "U+E014B",
       "U+E014C", "U+E014D", "U+E014E", "U+E014F", "U+E0150", "U+E0151", "U+E0152", "U+E0153", "U+E0154", "U+E0155",
       "U+E0156", "U+E0157", "U+E0158", "U+E0159", "U+E015A", "U+E015B", "U+E015C", "U+E015D", "U+E015E", "U+E015F",
       "U+E0160", "U+E0161", "U+E0162", "U+E0163", "U+E0164", "U+E0165", "U+E0166", "U+E0167", "U+E0168", "U+E0169",
       "U+E016A", "U+E016B", "U+E016C", "U+E016D", "U+E016E", "U+E016F", "U+E0170", "U+E0171", "U+E0172", "U+E0173",
       "U+E0174", "U+E0175", "U+E0176", "U+E0177", "U+E0178", "U+E0179", "U+E017A", "U+E017B", "U+E017C", "U+E017D",
       "U+E017E", "U+E017F", "U+E0180", "U+E0181", "U+E0182", "U+E0183", "U+E0184", "U+E0185", "U+E0186", "U+E0187",
       "U+E0188", "U+E0189", "U+E018A", "U+E018B", "U+E018C", "U+E018D", "U+E018E", "U+E018F", "U+E0190", "U+E0191",
       "U+E0192", "U+E0193", "U+E0194", "U+E0195", "U+E0196", "U+E0197", "U+E0198", "U+E0199", "U+E019A", "U+E019B",
       "U+E019C", "U+E019D", "U+E019E", "U+E019F", "U+E01A0", "U+E01A1", "U+E01A2", "U+E01A3", "U+E01A4", "U+E01A5",
       "U+E01A6", "U+E01A7", "U+E01A8", "U+E01A9", "U+E01AA", "U+E01AB", "U+E01AC", "U+E01AD", "U+E01AE", "U+E01AF",
       "U+E01B0", "U+E01B1", "U+E01B2", "U+E01B3", "U+E01B4", "U+E01B5", "U+E01B6", "U+E01B7", "U+E01B8", "U+E01B9",
       "U+E01BA", "U+E01BB", "U+E01BC", "U+E01BD", "U+E01BE", "U+E01BF", "U+E01C0", "U+E01C1", "U+E01C2", "U+E01C3",
       "U+E01C4", "U+E01C5", "U+E01C6", "U+E01C7", "U+E01C8", "U+E01C9", "U+E01CA", "U+E01CB", "U+E01CC", "U+E01CD",
       "U+E01CE", "U+E01CF", "U+E01D0", "U+E01D1", "U+E01D2", "U+E01D3", "U+E01D4", "U+E01D5", "U+E01D6", "U+E01D7",
       "U+E01D8", "U+E01D9", "U+E01DA", "U+E01DB", "U+E01DC", "U+E01DD", "U+E01DE", "U+E01DF", "U+E01E0", "U+E01E1",
       "U+E01E2", "U+E01E3", "U+E01E4", "U+E01E5", "U+E01E6", "U+E01E7", "U+E01E8", "U+E01E9", "U+E01EA", "U+E01EB",
       "U+E01EC", "U+E01ED", "U+E01EE", "U+E01EF" }

UpperCaseMap ==
    [c \in {UpperCaseTable[i][1] : i \in DOMAIN UpperCaseTable} |->
        UpperCaseTable[CHOOSE i \in DOMAIN UpperCaseTable : UpperCaseTable[i][1] = c][2]]

LowerCaseMap ==
    [c \in {LowerCaseTable[i][1] : i \in DOMAIN LowerCaseTable} |->
        LowerCaseTable[CHOOSE i \in DOMAIN LowerCaseTable : LowerCaseTable[i][1] = c][2]]

\* the capital sigma, the small sigma and the final small sigma
SIGMA       == "U+03A3"
SmallSigma  == "U+03C3"
FinalSigma  == "U+03C2"

\* the text a character becomes in upper case
toUpperChar(c) ==
    IF \E i \in 1..26 : LowerChars[i] = c
    THEN <<UpperChars[CHOOSE i \in 1..26 : LowerChars[i] = c]>>
    ELSE IF c \in DOMAIN UpperCaseMap THEN UpperCaseMap[c]
    ELSE <<c>>

\* a cased letter that is not case-ignorable
IsCased(c) ==
    /\ c \notin CaseIgnorable
    /\ \/ \E i \in 1..26 : c = LowerChars[i] \/ c = UpperChars[i]
       \/ c \in DOMAIN UpperCaseMap
       \/ c \in DOMAIN LowerCaseMap
       \/ c = SIGMA
       \/ c \in UnmappedCased

\* Final_Sigma: before position i a cased letter and then case-ignorable
\* characters only, and after it no cased letter that only case-ignorable
\* characters separate from it
IsFinalSigma(s, i) ==
    /\ \E j \in 1..(i - 1) :
          IsCased(s[j]) /\ \A k \in (j + 1)..(i - 1) : s[k] \in CaseIgnorable
    /\ ~\E j \in (i + 1)..Len(s) :
          IsCased(s[j]) /\ \A k \in (i + 1)..(j - 1) : s[k] \in CaseIgnorable

\* the text the character at position i of s becomes in lower case
toLowerAt(s, i) ==
    IF \E k \in 1..26 : UpperChars[k] = s[i]
    THEN <<LowerChars[CHOOSE k \in 1..26 : UpperChars[k] = s[i]]>>
    ELSE IF s[i] = SIGMA THEN (IF IsFinalSigma(s, i) THEN <<FinalSigma>> ELSE <<SmallSigma>>)
    ELSE IF s[i] \in DOMAIN LowerCaseMap THEN LowerCaseMap[s[i]]
    ELSE <<s[i]>>

RECURSIVE Flatten(_)
Flatten(parts) == IF parts = <<>> THEN <<>> ELSE Head(parts) \o Flatten(Tail(parts))

\* String.prototype.toUpperCase / toLowerCase
toUpperCase(s) == Flatten([i \in 1..Len(s) |-> toUpperChar(s[i])])
toLowerCase(s) == Flatten([i \in 1..Len(s) |-> toLowerAt(s, i)])

\* String.prototype.includes
includes(s, sub) ==
    \E i \in 1..(Len(s) - Len(sub) + 1) : SubSeq(s, i, i + Len(sub) - 1) = sub

\* Decimal digits of a natural number (String(n) for n >= 0).
RECURSIVE DigitsOf(_)
DigitsOf(n) ==
    IF n < 10 THEN <<DigitChars[n + 1]>>
    ELSE DigitsOf(n \div 10) \o <<DigitChars[(n % 10) + 1]>>

\* -------------------------------------------------------------- JS values
\* A value is a record [t, n, s, items]: t the kind of the value, n the
\* number (0 or 1 of a boolean, the sign of an infinity), s the characters of
\* a string (of an infinity its name, of an object the names of its own
\* properties), items the elements of an array.
Undef    == [t |-> "undefined", n |-> 0, s |-> <<>>, items |-> <<>>]
Null     == [t |-> "null",      n |-> 0, s |-> <<>>, items |-> <<>>]
Num(x)   == [t |-> "number",    n |-> x, s |-> <<>>, items |-> <<>>]
Str(x)   == [t |-> "string",    n |-> 0, s |-> x,    items |-> <<>>]
Bool(b)  == [t |-> "boolean",   n |-> IF b THEN 1 ELSE 0, s |-> <<>>, items |-> <<>>]

\* the numbers JSON.parse gives for a literal beyond the range of a double,
\* such as 1e999 and -1e999
S_Infinity  == <<"I","n","f","i","n","i","t","y">>
Infinity    == [t |-> "number", n |-> 1,  s |-> S_Infinity, items |-> <<>>]
NegInfinity == [t |-> "number", n |-> -1, s |-> <<"-">> \o S_Infinity, items |-> <<>>]

\* an array, by its elements
Arr(items) == [t |-> "array", n |-> 0, s |-> <<>>, items |-> items]

\* an object as JSON.parse builds it, by the names of its own properties
Obj(names) == [t |-> "object", n |-> 0, s |-> names, items |-> <<>>]

\* ToBoolean
Truthy(v) ==
    CASE v.t = "undefined" -> FALSE
      [] v.t = "null"      -> FALSE
      [] v.t = "number"    -> v.n # 0
      [] v.t = "string"    -> v.s # <<>>
      [] v.t = "boolean"   -> v.n = 1
      [] OTHER               -> TRUE

\* a || b   and   a && b
JsOr(a, b)  == IF Truthy(a) THEN a ELSE b
JsAnd(a, b) == IF Truthy(a) THEN b ELSE a

\* ToString(v) raises a TypeError: v is an object with an own property
\* toString, which JSON never makes a function, so that neither it nor the
\* valueOf it inherits gives a primitive value; or v is an array with such
\* an element
RECURSIVE ToStringThrows(_)
ToStringThrows(v) ==
    CASE v.t = "object" -> \E i \in 1..Len(v.s) : v.s[i] = "toString"
      [] v.t = "array"  -> \E i \in 1..Len(v.items) :
                               /\ v.items[i].t \notin {"null", "undefined"}
                               /\ ToStringThrows(v.items[i])
      [] OTHER          -> FALSE

\* String(v), where it raises no error; of an array its elements joined by
\* commas, null and undefined ones as the empty text
RECURSIVE String(_)
RECURSIVE join(_)
join(items) ==
    IF items = <<>> THEN <<>>
    ELSE (IF Head(items).t \in {"null", "undefined"} THEN <<>> ELSE String(Head(items)))
         \o (IF Len(items) > 1 THEN <<",">> ELSE <<>>) \o join(Tail(items))

String(v) ==
    CASE v.t = "string"    -> v.s
      [] v.t = "number"    -> IF v.s # <<>> THEN v.s
                              ELSE IF v.n < 0 THEN <<"-">> \o DigitsOf(0 - v.n)
                              ELSE DigitsOf(v.n)
      [] v.t = "boolean"   -> IF v.n = 1 THEN <<"t","r","u","e">> ELSE <<"f","a","l","s","e">>
      [] v.t = "null"      -> <<"n","u","l","l">>
      [] v.t = "undefined" -> <<"u","n","d","e","f","i","n","e","d">>
      [] v.t = "array"     -> join(v.items)
      [] v.t = "object" /\ ~ToStringThrows(v) ->
             <<"[","o","b","j","e","c","t"," ","O","b","j","e","c","t","]">>

\* ------------------------------------------------------ string constants
S_AIR        == <<"A","I","R">>
S_STOVE      == <<"S","T","O","V","E">>
S_airnodeSeg == <<"/","a","i","r","n","o","d","e","/">>
S_stoveSeg   == <<"/","s","t","o","v","e","n","o","d","e","/">>
S_shega      == <<"s","h","e","g","a">>
T_ALERTS     == S_shega \o <<"/","a","l","e","r","t","s">>
T_AIRDATA    == S_shega \o S_airnodeSeg \o <<"d","a","t","a">>
T_STOVE      == S_shega \o S_stoveSeg \o <<"s","t","a","t","u","s">>
\* a topic that matches the filter shega/+/data and carries no stream hint
T_OTHERDATA  == S_shega \o <<"/","g","w","/","d","a","t","a">>

\* --------------------------------------------------------------- raw JSON
\* Property names the router reads from a parsed message.
Keys == {"ts", "homeId", "home", "h", "deviceId", "device", "stream",
         "co2", "co2_ppm", "co", "co_ppm",
         "pm25", "pm25_ugm3", "pm2_5", "pm2_5_ugm3", "pm10", "pm10_ugm3",
         "temperature_c", "temp_c", "temperature", "humidity_pct", "humidity",
         "stove_temp_c", "stove_temp", "fanOn", "buzzerOn", "profile", "windowOpen"}

\* The properties of an object are a record of the properties it has.
NoProps == [k \in {} |-> Undef]

\* obj[k]: undefined for a property the object does not have
Prop(obj, k) == IF k \in DOMAIN obj THEN obj[k] ELSE Undef

\* an object by the properties it has: rec without its undefined fields
Own(rec) == [k \in {x \in DOMAIN rec : rec[x].t # "undefined"} |-> rec[k]]

\* A parsed JSON value.  kind is the JSON type; top holds the properties of
\* an object; pkind is the type of its `payload` property and pay the
\* properties of that nested object.
JNull      == [kind |-> "null",   top |-> NoProps, pkind |-> "undefined", pay |-> NoProps]
JNumber    == [kind |-> "number", top |-> NoProps, pkind |-> "undefined", pay |-> NoProps]
JString    == [kind |-> "string", top |-> NoProps, pkind |-> "undefined", pay |-> NoProps]
JArray     == [kind |-> "array",  top |-> NoProps, pkind |-> "undefined", pay |-> NoProps]
JObject(rec)          == [kind |-> "object", top |-> rec, pkind |-> "undefined", pay |-> NoProps]
JNested(rec, payrec)  == [kind |-> "object", top |-> rec, pkind |-> "object", pay |-> payrec]
\* an object whose `payload` is no object: an array, a string, a number, a
\* boolean or null
JPayload(rec, pkind)  == [kind |-> "object", top |-> rec, pkind |-> pkind, pay |-> NoProps]

\* raw.k  (property read on a non-null value)
Get(raw, k) == IF raw.kind = "object" THEN Prop(raw.top, k) ELSE Undef

\* typeof raw.payload === 'object' with a truthy payload (an object or an
\* array; an array has none of the properties read), else raw itself
PayloadSource(raw) ==
    CASE raw.kind = "object" /\ raw.pkind = "object" -> raw.pay
      [] raw.kind = "object" /\ raw.pkind = "array"  -> NoProps
      [] raw.kind = "object"                         -> raw.top
      [] OTHER                                       -> NoProps

\* ------------------------------------------------------------- normalizer
\* typeof v === 'number' && Number.isFinite(v)
isFiniteNumber(v) == v.t = "number" /\ v.s = <<>>

\* Mutant: the last candidate that is a finite number is taken.
RECURSIVE pickNumber_Last(_)
pickNumber_Last(cands) ==
    IF cands = <<>> THEN Undef
    ELSE IF isFiniteNumber(cands[Len(cands)]) THEN cands[Len(cands)]
    ELSE pickNumber_Last(SubSeq(cands, 1, Len(cands) - 1))

\* pickNumber(...candidates): the first candidate that is a finite number
RECURSIVE pickNumber(_)
pickNumber(cands) ==
    IF cands = <<>> THEN Undef
    ELSE IF isFiniteNumber(Head(cands)) THEN Head(cands)
    ELSE pickNumber(Tail(cands))

\* typeof v === 'boolean' ? v : undefined
pickBoolean(v) == IF v.t = "boolean" THEN v ELSE Undef

\* /HOME_\d{2}/ matches s at position i
HomeMatchAt(s, i) ==
    /\ i + 6 <= Len(s)
    /\ SubSeq(s, i, i + 4) = <<"H","O","M","E","_">>
    /\ IsDigit(s[i + 5])
    /\ IsDigit(s[i + 6])

\* s.match(/HOME_\d{2}/): the first match, or undefined for none
FirstHomeMatch(s, hits) ==
    IF hits = {} THEN Undef
    ELSE Str(SubSeq(s, CHOOSE j \in hits : \A k \in hits : j <= k,
                    (CHOOSE j \in hits : \A k \in hits : j <= k) + 6))

HomeMatch(s) == FirstHomeMatch(s, {i \in 1..Len(s) : HomeMatchAt(s, i)})

\* extractHomeFromDevice(deviceId) raises the TypeError of String(deviceId)
extractHomeFromDeviceThrows(deviceId) == Truthy(deviceId) /\ ToStringThrows(deviceId)

extractHomeFromDevice(deviceId) ==
    IF ~Truthy(deviceId) THEN Undef ELSE HomeMatch(String(deviceId))

\* The receipt time new Date().toISOString(), kept abstract.
S_NOW == <<"n","o","w">>

\* ---- Date: a time value is a day number (days since 1970-01-01) and the
\* milliseconds within the day, so that no product leaves the integers of
\* the checker; ok = FALSE stands for NaN
DigitVal(c) == (CHOOSE i \in 1..10 : DigitChars[i] = c) - 1

RECURSIVE NatOf(_)
NatOf(s) == IF s = <<>> THEN 0
            ELSE 10 * NatOf(SubSeq(s, 1, Len(s) - 1)) + DigitVal(s[Len(s)])

\* MakeDay: the day number of year y, month m (1..12), day d, days past the
\* end of the month running into the next
DaysFromCivil(y, m, d) ==
    LET yy  == IF m <= 2 THEN y - 1 ELSE y
        era == yy \div 400
        yoe == yy - era * 400
        mp  == IF m > 2 THEN m - 3 ELSE m + 9
        doy == (153 * mp + 2) \div 5 + d - 1
        doe == yoe * 365 + yoe \div 4 - yoe \div 100 + doy IN
    era * 146097 + doe - 719468

\* YearFromTime, MonthFromTime, DateFromTime: the year, the day of the year
\* counted from 1 March, and the month counted from March
CivilOfMonth(y, doy, mp) ==
    [y |-> y + (IF mp < 10 THEN 0 ELSE 1),
     m |-> IF mp < 10 THEN mp + 3 ELSE mp - 9,
     d |-> doy - (153 * mp + 2) \div 5 + 1]

CivilOfDay(y, doy) == CivilOfMonth(y, doy, (5 * doy + 2) \div 153)

CivilOfYear(era, doe, yoe) ==
    CivilOfDay(yoe + era * 400, doe - (365 * yoe + yoe \div 4 - yoe \div 100))

CivilOfEra(era, doe) ==
    CivilOfYear(era, doe,
                (doe - doe \div 1460 + doe \div 36524 - doe \div 146096) \div 365)

CivilFromDays(z) ==
    CivilOfEra((z + 719468) \div 146097, (z + 719468) % 146097)

InvalidDate == [ok |-> FALSE, day |-> 0, ms |-> 0]

\* MakeDate and TimeClip: at most 100,000,000 days either side of the epoch
TimeValue(day, ms) ==
    LET dd == day + ms \div 86400000
        mm == ms % 86400000 IN
    IF dd > 100000000 \/ dd < -100000000 \/ (dd = 100000000 /\ mm > 0)
    THEN InvalidDate
    ELSE [ok |-> TRUE, day |-> dd, ms |-> mm]

\* ---- Date.parse as the engine does it (V8's DateParser): the text is cut
\* into tokens, the ES5 date-time form is tried, and what it leaves is read
\* by the legacy rules
\* IsWhiteSpace: the white space characters, the line terminators apart
WhiteSpaceChars ==
    {"\t", "U+000B", "\f", " ", "U+00A0", "U+1680",
     "U+2000", "U+2001", "U+2002", "U+2003", "U+2004", "U+2005", "U+2006", "U+2007",
     "U+2008", "U+2009", "U+200A", "U+202F", "U+205F", "U+3000", "U+FEFF"}

\* the line terminators, which SkipWhiteSpace passes as well; U+2028 and
\* U+2029 are not below 'A' and so are read as characters of a word before
\* SkipWhiteSpace is tried
LineTerminators == {"\n", "\r", "U+2028", "U+2029"}

\* the character the reader gives past the end of the text: the text ends
\* at its first U+0000
EndChar == "U+0000"

\* the characters below 'A'; a word runs up to one of them or to a white
\* space character
BelowA == {"U+0000", "U+0001", "U+0002", "U+0003", "U+0004", "U+0005", "U+0006", "U+0007",
           "U+0008", "\t", "\n", "U+000B", "\f", "\r", "U+000E", "U+000F",
           "U+0010", "U+0011", "U+0012", "U+0013", "U+0014", "U+0015", "U+0016", "U+0017",
           "U+0018", "U+0019", "U+001A", "U+001B", "U+001C", "U+001D", "U+001E", "U+001F",
           " ", "!", "\"", "#", "$", "%", "&", "'", "(", ")", "*", "+", ",", "-", ".",
           "/", ":", ";", "<", "=", ">", "?", "@"}
          \cup {DigitChars[i] : i \in 1..10}

\* a character that ends a word
EndsWord(c) == c \in BelowA \/ c \in WhiteSpaceChars

\* the length of the run of digits, and of word characters, that starts at i
DigitRun(s, i) ==
    CHOOSE k \in 0..(Len(s) - i + 1) :
        /\ \A j \in i..(i + k - 1) : IsDigit(s[j])
        /\ (i + k > Len(s) \/ ~IsDigit(s[i + k]))

WordRun(s, i) ==
    CHOOSE k \in 0..(Len(s) - i + 1) :
        /\ \A j \in i..(i + k - 1) : ~EndsWord(s[j])
        /\ (i + k > Len(s) \/ EndsWord(s[i + k]))

\* SkipParentheses: the position after the parenthesis that closes the one
\* at i, or after the end of the text
RECURSIVE SkipParentheses(_, _, _)
SkipParentheses(s, i, balance) ==
    LET b == balance + (IF s[i] = "(" THEN 1 ELSE IF s[i] = ")" THEN -1 ELSE 0) IN
    IF b > 0 /\ i + 1 <= Len(s) /\ s[i + 1] # EndChar
    THEN SkipParentheses(s, i + 1, b) ELSE i + 1

\* ReadUnsignedNumeral: leading zeros skipped, then the first nine digits
RECURSIVE SkipZeros(_)
SkipZeros(ds) == IF ds # <<>> /\ Head(ds) = "0" THEN SkipZeros(Tail(ds)) ELSE ds

FirstNine(ds) == NatOf(SubSeq(ds, 1, IF Len(ds) < 9 THEN Len(ds) ELSE 9))

ReadUnsignedNumeral(ds) == FirstNine(SkipZeros(ds))

\* the keywords: the first three letters of a word in lower case; a longer
\* word is one only when it begins like a month name
Keyword(w, kt, n) == [w |-> w, kt |-> kt, n |-> n]

KeywordTable ==
    << Keyword(<<"j","a","n">>, "month", 1),  Keyword(<<"f","e","b">>, "month", 2),
       Keyword(<<"m","a","r">>, "month", 3),  Keyword(<<"a","p","r">>, "month", 4),
       Keyword(<<"m","a","y">>, "month", 5),  Keyword(<<"j","u","n">>, "month", 6),
       Keyword(<<"j","u","l">>, "month", 7),  Keyword(<<"a","u","g">>, "month", 8),
       Keyword(<<"s","e","p">>, "month", 9),  Keyword(<<"o","c","t">>, "month", 10),
       Keyword(<<"n","o","v">>, "month", 11), Keyword(<<"d","e","c">>, "month", 12),
       Keyword(<<"a","m">>, "ampm", 0),       Keyword(<<"p","m">>, "ampm", 12),
       Keyword(<<"u","t">>, "zone", 0),       Keyword(<<"u","t","c">>, "zone", 0),
       Keyword(<<"z">>, "zone", 0),           Keyword(<<"g","m","t">>, "zone", 0),
       Keyword(<<"c","d","t">>, "zone", -5),  Keyword(<<"c","s","t">>, "zone", -6),
       Keyword(<<"e","d","t">>, "zone", -4),  Keyword(<<"e","s","t">>, "zone", -5),
       Keyword(<<"m","d","t">>, "zone", -6),  Keyword(<<"m","s","t">>, "zone", -7),
       Keyword(<<"p","d","t">>, "zone", -7),  Keyword(<<"p","s","t">>, "zone", -8),
       Keyword(<<"t">>, "separator", 0) >>

NoKeyword == Keyword(<<>>, "none", 0)

KeywordAmong(hits) ==
    IF hits = {} THEN NoKeyword ELSE KeywordTable[CHOOSE e \in hits : TRUE]

PrefixLookup(prefix, len) ==
    KeywordAmong({e \in 1..Len(KeywordTable) :
                     /\ KeywordTable[e].w = prefix
                     /\ (len <= 3 \/ KeywordTable[e].kt = "month")})

\* AsciiAlphaToLower: c | 0x20, which makes a lower-case letter of an ASCII
\* letter and of nothing else; of the other characters from '@' to '_' it
\* makes those from the grave accent to DEL, and a character outside ASCII
\* stays outside ASCII
AsciiRow4 == <<"@">> \o UpperChars \o <<"[", "\\", "]", "^", "_">>
AsciiRow6 == <<"U+0060">> \o LowerChars \o <<"{", "|", "}", "~", "U+007F">>

AsciiAlphaToLower(c) ==
    IF \E i \in 1..32 : AsciiRow4[i] = c
    THEN AsciiRow6[CHOOSE i \in 1..32 : AsciiRow4[i] = c]
    ELSE c

\* the first three characters of a word, each through AsciiAlphaToLower
Prefix(word) ==
    [i \in 1..(IF Len(word) < 3 THEN Len(word) ELSE 3) |-> AsciiAlphaToLower(word[i])]

Lookup(word) == PrefixLookup(Prefix(word), Len(word))

\* A token: a number with its value and its length in digits, one of the
\* symbols : - + . ), a word with its keyword, a white space character, or
\* anything else; next is the position after it
DateToken(k, n, len, c, kt, next) ==
    [k |-> k, n |-> n, len |-> len, c |-> c, kt |-> kt, next |-> next]

NumberToken(s, i, len) ==
    DateToken("number", ReadUnsignedNumeral(SubSeq(s, i, i + len - 1)), len, "", "none",
              i + len)

WordToken(key, i, len) == DateToken("word", key.n, len, "", key.kt, i + len)

ReadWord(s, i, len) == WordToken(Lookup(SubSeq(s, i, i + len - 1)), i, len)

Scan(s, i) ==
    IF IsDigit(s[i]) THEN NumberToken(s, i, DigitRun(s, i))
    ELSE IF s[i] \in {":", "-", "+", ".", ")"}
         THEN DateToken("symbol", 0, 1, s[i], "none", i + 1)
    ELSE IF ~EndsWord(s[i]) THEN ReadWord(s, i, WordRun(s, i))
    ELSE IF s[i] \in WhiteSpaceChars \cup LineTerminators
         THEN DateToken("space", 0, 1, "", "none", i + 1)
    ELSE IF s[i] = "(" THEN DateToken("unknown", 0, 0, "", "none", SkipParentheses(s, i, 0))
    ELSE DateToken("unknown", 0, 1, "", "none", i + 1)

RECURSIVE Tokens(_, _)
TokensAfter(s, token) == <<token>> \o Tokens(s, token.next)
Tokens(s, i) ==
    IF i > Len(s) \/ s[i] = EndChar THEN <<>> ELSE TokensAfter(s, Scan(s, i))

IsNumber(toks, i)         == i <= Len(toks) /\ toks[i].k = "number"
IsFixedNumber(toks, i, k) == i <= Len(toks) /\ toks[i].k = "number" /\ toks[i].len = k
IsSymbol(toks, i, c)      == i <= Len(toks) /\ toks[i].k = "symbol" /\ toks[i].c = c
IsAsciiSign(toks, i)      == i <= Len(toks) /\ toks[i].k = "symbol" /\ toks[i].c \in {"+", "-"}
IsKeywordType(toks, i, kt) == i <= Len(toks) /\ toks[i].k = "word" /\ toks[i].kt = kt
IsKeywordZ(toks, i)       == IsKeywordType(toks, i, "zone") /\ toks[i].len = 1
SignOf(c)                 == IF c = "-" THEN -1 ELSE 1

\* ReadMilliseconds: the first three digits of a fraction as milliseconds,
\* from the value and the length of its token
RECURSIVE PowerOfTen(_)
PowerOfTen(k) == IF k <= 0 THEN 1 ELSE 10 * PowerOfTen(k - 1)

ReadMilliseconds(token) ==
    IF token.len = 1 THEN token.n * 100
    ELSE IF token.len = 2 THEN token.n * 10
    ELSE IF token.len = 3 THEN token.n
    ELSE token.n \div PowerOfTen((IF token.len > 9 THEN 9 ELSE token.len) - 3)

\* The composers of the day, the time and the time zone, with the position
\* i in the tokens: day and time hold the numbers read, named the month read
\* as a word (0 for none), hoff the hours of am/pm, sign, tzh and tzm the
\* offset (0 and -1 for none); mode tells how far the ES5 form was matched
Composers ==
    [mode |-> "date", ok |-> TRUE, i |-> 1, day |-> <<>>, named |-> 0, iso |-> FALSE,
     time |-> <<>>, hoff |-> -1, sign |-> 0, tzh |-> -1, tzm |-> -1, num |-> FALSE]

Invalid(st)      == [st EXCEPT !.mode = "invalid", !.ok = FALSE]
Unhandled(st, i) == [st EXCEPT !.mode = "legacy", !.i = i]
\* TimeZoneComposer.Set(0) when neither a time nor an offset was read
Done(st) ==
    IF st.time = <<>> /\ st.tzh = -1
    THEN [st EXCEPT !.mode = "done", !.iso = TRUE, !.sign = 1, !.tzh = 0, !.tzm = 0]
    ELSE [st EXCEPT !.mode = "done", !.iso = TRUE]

\* ParseES5DateTime, the date: [+-]YYYYYY or YYYY, then -MM, then -DD
\* after a sign that six digits do not follow, the sign is the token handed
\* over and the legacy rules begin with the token after it; after the year
\* -000000 the token handed over is unknown and they begin after the year
ES5Year(toks) ==
    IF IsAsciiSign(toks, 1)
    THEN IF ~IsFixedNumber(toks, 2, 6) THEN Unhandled(Composers, 1)
         ELSE IF toks[1].c = "-" /\ toks[2].n = 0 THEN Unhandled(Composers, 3)
         ELSE [Composers EXCEPT !.day = <<SignOf(toks[1].c) * toks[2].n>>, !.i = 3]
    ELSE IF IsFixedNumber(toks, 1, 4)
         THEN [Composers EXCEPT !.day = <<toks[1].n>>, !.i = 2]
         ELSE Unhandled(Composers, 1)

\* -MM when k = 1 numbers of the date are read, -DD when k = 2
ES5MonthOrDay(toks, st, k, max) ==
    IF st.mode # "date" \/ Len(st.day) # k \/ ~IsSymbol(toks, st.i, "-") THEN st
    ELSE IF IsFixedNumber(toks, st.i + 1, 2) /\ toks[st.i + 1].n \in 1..max
         THEN [st EXCEPT !.day = Append(@, toks[st.i + 1].n), !.i = @ + 2]
         ELSE Unhandled(st, st.i + 1)

\* the end of the text, the T of a date-time, or a token left to the legacy
\* rules
ES5Separator(toks, st) ==
    IF st.mode # "date" THEN st
    ELSE IF IsKeywordType(toks, st.i, "separator")
         THEN [st EXCEPT !.mode = "time", !.i = @ + 1]
    ELSE IF st.i > Len(toks) THEN Done(st)
    ELSE Unhandled(st, st.i)

\* HH:mm, where only 24:00 begins with 24
ES5Hour(toks, st) ==
    IF st.mode # "time" THEN st
    ELSE IF /\ IsFixedNumber(toks, st.i, 2) /\ toks[st.i].n <= 24
            /\ IsSymbol(toks, st.i + 1, ":")
         THEN [st EXCEPT !.time = <<toks[st.i].n>>, !.i = @ + 2]
         ELSE Invalid(st)

ES5Minute(toks, st) ==
    IF st.mode # "time" THEN st
    ELSE IF /\ IsFixedNumber(toks, st.i, 2) /\ toks[st.i].n <= 59
            /\ ~(st.time[1] = 24 /\ toks[st.i].n > 0)
         THEN [st EXCEPT !.time = Append(@, toks[st.i].n), !.i = @ + 1]
         ELSE Invalid(st)

\* :ss
ES5Second(toks, st) ==
    IF st.mode # "time" \/ ~IsSymbol(toks, st.i, ":") THEN st
    ELSE IF /\ IsFixedNumber(toks, st.i + 1, 2) /\ toks[st.i + 1].n <= 59
            /\ ~(st.time[1] = 24 /\ toks[st.i + 1].n > 0)
         THEN [st EXCEPT !.time = Append(@, toks[st.i + 1].n), !.i = @ + 2]
         ELSE Invalid(st)

\* .sss, of any number of digits, after the seconds
ES5Fraction(toks, st) ==
    IF st.mode # "time" \/ Len(st.time) # 3 \/ ~IsSymbol(toks, st.i, ".") THEN st
    ELSE IF IsNumber(toks, st.i + 1) /\ ~(st.time[1] = 24 /\ toks[st.i + 1].n > 0)
         THEN [st EXCEPT !.time = Append(@, ReadMilliseconds(toks[st.i + 1])), !.i = @ + 2]
         ELSE Invalid(st)

\* Z, +hhmm, +hh:mm, or nothing
ES5Zone(toks, st) ==
    IF st.mode # "time" THEN st
    ELSE IF IsKeywordZ(toks, st.i)
         THEN [st EXCEPT !.sign = 1, !.tzh = 0, !.tzm = 0, !.i = @ + 1]
    ELSE IF ~IsAsciiSign(toks, st.i) THEN st
    ELSE IF IsFixedNumber(toks, st.i + 1, 4)
         THEN IF toks[st.i + 1].n \div 100 <= 23 /\ toks[st.i + 1].n % 100 <= 59
              THEN [st EXCEPT !.sign = SignOf(toks[st.i].c),
                              !.tzh = toks[st.i + 1].n \div 100,
                              !.tzm = toks[st.i + 1].n % 100, !.i = @ + 2]
              ELSE Invalid(st)
    ELSE IF /\ IsFixedNumber(toks, st.i + 1, 2) /\ toks[st.i + 1].n <= 23
            /\ IsSymbol(toks, st.i + 2, ":")
            /\ IsFixedNumber(toks, st.i + 3, 2) /\ toks[st.i + 3].n <= 59
         THEN [st EXCEPT !.sign = SignOf(toks[st.i].c), !.tzh = toks[st.i + 1].n,
                         !.tzm = toks[st.i + 3].n, !.i = @ + 4]
         ELSE Invalid(st)

\* nothing may follow a date-time
ES5End(toks, st) ==
    IF st.mode # "time" THEN st
    ELSE IF st.i > Len(toks) THEN Done(st) ELSE Invalid(st)

ParseES5DateTime(toks) ==
    ES5End(toks, ES5Zone(toks, ES5Fraction(toks, ES5Second(toks, ES5Minute(toks,
        ES5Hour(toks, ES5Separator(toks, ES5MonthOrDay(toks,
            ES5MonthOrDay(toks, ES5Year(toks), 1, 12), 2, 31))))))))

\* ---- the legacy rules, token by token
\* TimeComposer.IsExpecting: n can be the minute, the second or the
\* millisecond that comes next
TimeIsExpecting(st, n) ==
    \/ Len(st.time) \in {1, 2} /\ n <= 59
    \/ Len(st.time) = 3 /\ n <= 999

\* TimeComposer.AddFinal: n and zeros up to the millisecond; dropped when
\* the time is full
AddFinal(time, n) ==
    IF Len(time) >= 4 THEN time
    ELSE [k \in 1..4 |-> IF k <= Len(time) THEN time[k] ELSE IF k = Len(time) + 1 THEN n ELSE 0]

\* TimeZoneComposer.IsExpecting: the hour of the offset is read, its minute
\* is not, and n can be a minute; IsUTC
ZoneIsExpecting(st, n) == st.tzh # -1 /\ st.tzm = -1 /\ n <= 59
ZoneIsUTC(st)       == st.tzh = 0 /\ st.tzm = 0

\* a number followed by a colon: an hour, a minute or a second
NumberColon(toks, st, n, j) ==
    IF IsSymbol(toks, j, ":")
    THEN IF st.time # <<>> THEN Invalid(st)
         ELSE [st EXCEPT !.time = <<n, 0>>, !.i = j + 1]
    ELSE IF Len(st.time) >= 4 THEN Invalid(st)
    ELSE [st EXCEPT !.time = Append(@, n),
                    !.i = IF IsSymbol(toks, j, ".") THEN j + 1 ELSE j]

\* a number not followed by a colon; j is the position after it and after
\* the dot that follows it, if one does
NumberPlain(toks, st, n, j, dot) ==
    IF dot /\ TimeIsExpecting(st, n)
    THEN IF IsNumber(toks, j)
         THEN [st EXCEPT !.time = AddFinal(Append(@, n), ReadMilliseconds(toks[j])),
                         !.i = j + 1]
         ELSE Invalid(st)
    ELSE IF ZoneIsExpecting(st, n) THEN [st EXCEPT !.tzm = n, !.i = j]
    ELSE IF TimeIsExpecting(st, n)
         THEN IF \/ j > Len(toks) \/ toks[j].k = "space"
                 \/ IsKeywordZ(toks, j) \/ IsAsciiSign(toks, j)
              THEN [st EXCEPT !.time = AddFinal(@, n), !.i = j]
              ELSE Invalid(st)
    ELSE IF Len(st.day) >= 3 THEN Invalid(st)
    ELSE [st EXCEPT !.day = Append(@, n),
                    !.i = IF IsSymbol(toks, j, "-") THEN j + 1 ELSE j]

LegacyNumber(toks, st, n) ==
    IF IsSymbol(toks, st.i + 1, ":") THEN NumberColon(toks, st, n, st.i + 2)
    ELSE NumberPlain(toks, st, n,
                     IF IsSymbol(toks, st.i + 1, ".") THEN st.i + 2 ELSE st.i + 1,
                     IsSymbol(toks, st.i + 1, "."))

\* a word: am or pm after a time, a month name, a time zone name after a
\* number; any other word only before the first number and apart from it
LegacyWord(toks, st, token) ==
    IF token.kt = "ampm" /\ st.time # <<>>
    THEN [st EXCEPT !.hoff = token.n, !.i = @ + 1]
    ELSE IF token.kt = "month"
    THEN [st EXCEPT !.named = token.n,
                    !.i = IF IsSymbol(toks, st.i + 1, "-") THEN @ + 2 ELSE @ + 1]
    ELSE IF token.kt = "zone" /\ st.num
    THEN [st EXCEPT !.sign = IF token.n < 0 THEN -1 ELSE 1,
                    !.tzh = IF token.n < 0 THEN 0 - token.n ELSE token.n,
                    !.tzm = 0, !.i = @ + 1]
    ELSE IF st.num \/ IsNumber(toks, st.i + 1) THEN Invalid(st)
    ELSE [st EXCEPT !.i = @ + 1]

\* the offset after a sign: n of len digits (none: 0 of 0), j the position
\* after it; hh before a colon, h, hh, hmm or hhmm
SignedOffset(toks, st, n, len, j) ==
    IF IsSymbol(toks, j, ":") THEN [st EXCEPT !.tzh = n, !.tzm = -1, !.i = j]
    ELSE IF len \in {1, 2} THEN [st EXCEPT !.tzh = n, !.tzm = 0, !.i = j]
    ELSE IF len \in {3, 4} THEN [st EXCEPT !.tzh = n \div 100, !.tzm = n % 100, !.i = j]
    ELSE Invalid(st)

LegacySign(toks, st, c) ==
    IF IsNumber(toks, st.i + 1)
    THEN SignedOffset(toks, [st EXCEPT !.sign = SignOf(c), !.num = TRUE],
                      toks[st.i + 1].n, toks[st.i + 1].len, st.i + 2)
    ELSE SignedOffset(toks, [st EXCEPT !.sign = SignOf(c), !.num = TRUE], 0, 0, st.i + 1)

LegacyToken(toks, st, token) ==
    IF token.k = "number" THEN LegacyNumber(toks, [st EXCEPT !.num = TRUE], token.n)
    ELSE IF token.k = "word" THEN LegacyWord(toks, st, token)
    ELSE IF token.k = "symbol" /\ token.c \in {"+", "-"} /\ (ZoneIsUTC(st) \/ st.time # <<>>)
         THEN LegacySign(toks, st, token.c)
    ELSE IF token.k = "symbol" /\ token.c \in {"+", "-", ")"} /\ st.num THEN Invalid(st)
    ELSE [st EXCEPT !.i = @ + 1]

RECURSIVE LegacyLoop(_, _)
LegacyLoop(toks, st) ==
    IF ~st.ok \/ st.i > Len(toks) THEN st
    ELSE LegacyLoop(toks, LegacyToken(toks, st, toks[st.i]))

\* the tokens the ES5 form left, read by the legacy rules
LegacyParse(toks, st) ==
    IF st.mode = "legacy" THEN LegacyLoop(toks, [st EXCEPT !.num = st.day # <<>>]) ELSE st

\* ---- DayComposer.Write
NoDay == [ok |-> FALSE, day |-> 0]

\* a year beyond the range of time values is no date; the range ends before
\* the year 275761
MakeDay(y, m, d) ==
    IF y > 300000 \/ y < -300000 THEN NoDay ELSE [ok |-> TRUE, day |-> DaysFromCivil(y, m, d)]

\* outside the ES5 form the years 0..49 are 2000..2049 and 50..99 1950..1999
CheckedDay(y, m, d, iso) ==
    IF m \notin 1..12 \/ d \notin 1..31 THEN NoDay
    ELSE MakeDay(IF ~iso /\ y \in 0..49 THEN y + 2000
                 ELSE IF ~iso /\ y \in 50..99 THEN y + 1900 ELSE y, m, d)

\* the numbers read are year, month, day when the form is ES5 or the first
\* is no day, and month, day, year otherwise; beside a named month they are
\* year, day or day, year
OrderedDay(c, named, iso) ==
    IF named = 0
    THEN IF iso \/ c[1] \notin 1..31 THEN CheckedDay(c[1], c[2], c[3], iso)
         ELSE CheckedDay(c[3], c[1], c[2], iso)
    ELSE IF c[1] \notin 1..31 THEN CheckedDay(c[1], named, c[2], iso)
         ELSE CheckedDay(c[2], named, c[1], iso)

\* month and day default to 1
DayWrite(st) ==
    IF st.day = <<>> THEN NoDay
    ELSE OrderedDay([k \in 1..3 |-> IF k <= Len(st.day) THEN st.day[k] ELSE 1],
                    st.named, st.iso)

\* ---- TimeComposer.Write
NoTime == [ok |-> FALSE, ms |-> 0]

CheckedTime(hour, minute, second, ms) ==
    IF \/ hour <= 23 /\ minute <= 59 /\ second <= 59 /\ ms <= 999
       \/ hour = 24 /\ minute = 0 /\ second = 0 /\ ms = 0
    THEN [ok |-> TRUE, ms |-> ((hour * 60 + minute) * 60 + second) * 1000 + ms]
    ELSE NoTime

\* after am or pm the hour is one of 0..12, taken modulo 12
OffsetTime(c, hoff) ==
    IF hoff = -1 THEN CheckedTime(c[1], c[2], c[3], c[4])
    ELSE IF c[1] > 12 THEN NoTime
    ELSE CheckedTime((c[1] % 12) + hoff, c[2], c[3], c[4])

TimeWrite(st) ==
    OffsetTime([k \in 1..4 |-> IF k <= Len(st.time) THEN st.time[k] ELSE 0], st.hoff)

\* ---- TimeZoneComposer.Write: the offset in seconds, hour * 3600 +
\* minute * 60 computed in 32 bits (here in two halves of 16) and refused
\* from 2^31 on; local is the absence of an offset
NoZone == [ok |-> FALSE, local |-> FALSE, secs |-> 0]

Half(x) == x % 65536

\* (hh * 65536 + hl) * 3600 + (mh * 65536 + ml) * 60, as its two halves
OffsetHigh(hh, hl, mh, ml) ==
    Half(hh * 3600 + mh * 60 + (hl * 3600 + ml * 60) \div 65536)
OffsetLow(hl, ml) == Half(hl * 3600 + ml * 60)

SignedSeconds(sign, high, low) ==
    IF high >= 32768 THEN NoZone
    ELSE [ok |-> TRUE, local |-> FALSE, secs |-> sign * (high * 65536 + low)]

OffsetSeconds(sign, hour, minute) ==
    SignedSeconds(sign,
                  OffsetHigh(hour \div 65536, Half(hour), minute \div 65536, Half(minute)),
                  OffsetLow(Half(hour), Half(minute)))

TimeZoneWrite(st) ==
    IF st.sign = 0 THEN [ok |-> TRUE, local |-> TRUE, secs |-> 0]
    ELSE OffsetSeconds(st.sign, IF st.tzh = -1 THEN 0 ELSE st.tzh,
                       IF st.tzm = -1 THEN 0 ELSE st.tzm)

\* ---- the time value of the parts: local time is UTC (the process runs in
\* UTC), a given offset is taken off
MakeDate(day, time, zone) ==
    IF ~day.ok \/ ~time.ok \/ ~zone.ok THEN InvalidDate
    ELSE TimeValue(day.day - zone.secs \div 86400, time.ms - (zone.secs % 86400) * 1000)

Compose(st) ==
    IF ~st.ok THEN InvalidDate
    ELSE MakeDate(DayWrite(st), TimeWrite(st), TimeZoneWrite(st))

ParseTokens(toks) == Compose(LegacyParse(toks, ParseES5DateTime(toks)))

\* Date.parse
DateParse(s) == ParseTokens(Tokens(s, 1))

\* digits ds written with at least k digits
PadTo(ds, k) ==
    IF Len(ds) >= k THEN ds ELSE [i \in 1..(k - Len(ds)) |-> "0"] \o ds

Pad(n, k) == PadTo(DigitsOf(n), k)

\* the year of an ISO text: four digits, or a sign and six outside 0..9999
WriteYear(y) ==
    IF y \in 0..9999 THEN Pad(y, 4)
    ELSE IF y < 0 THEN <<"-">> \o Pad(0 - y, 6)
    ELSE <<"+">> \o Pad(y, 6)

WriteISO(c, ms) ==
    WriteYear(c.y) \o <<"-">> \o Pad(c.m, 2) \o <<"-">> \o Pad(c.d, 2) \o <<"T">>
        \o Pad(ms \div 3600000, 2) \o <<":">> \o Pad((ms \div 60000) % 60, 2)
        \o <<":">> \o Pad((ms \div 1000) % 60, 2)
        \o <<".">> \o Pad(ms % 1000, 3) \o <<"Z">>

\* Date.prototype.toISOString of a valid time value
toISOString(tv) == WriteISO(CivilFromDays(tv.day), tv.ms)

\* new Date(v), where ToPrimitive(v) raises no error: of a string, and of
\* an array or an object through its string, what Date.parse gives; of a
\* finite number the time value it is, of a boolean that of its number
NewDate(v) ==
    CASE v.t = "string"    -> DateParse(v.s)
      [] v.t = "array"     -> DateParse(String(v))
      [] v.t = "object"    -> DateParse(String(v))
      [] v.t = "number" /\ v.s # <<>> -> InvalidDate
      [] v.t = "number"    -> TimeValue(v.n \div 86400000, v.n % 86400000)
      [] v.t = "boolean"   -> TimeValue(0, v.n)
      [] v.t = "null"      -> TimeValue(0, 0)
      [] OTHER             -> InvalidDate

\* d.toISOString(), or the receipt time when d.getTime() is NaN
ISOOrNow(d) == IF d.ok THEN Str(toISOString(d)) ELSE Str(S_NOW)

\* toISO(v) raises the TypeError of new Date(v), for an array or an object
\* that has no primitive value
toISOThrows(v) == Truthy(v) /\ ToStringThrows(v)

\* toISO(v): the receipt time for a falsy or unparseable v
toISO(v) == IF ~Truthy(v) THEN Str(S_NOW) ELSE ISOOrNow(NewDate(v))

\* (v && String(v).toUpperCase()), where String(v) raises no error
explicitStream(v) == JsAnd(v, Str(toUpperCase(String(v))))

\* Mutant: the topic gives no hint.
inferStream_NoTopicHint(topic, raw) ==
    JsOr(explicitStream(Get(raw, "stream")), Undef)

\* const t = topic.toLowerCase(); ...
streamOfTopic(t, raw) ==
    IF includes(t, S_airnodeSeg) THEN Str(S_AIR)
    ELSE IF includes(t, S_stoveSeg) THEN Str(S_STOVE)
    ELSE JsOr(explicitStream(Get(raw, "stream")), Undef)

inferStream(topic, raw) == streamOfTopic(toLowerCase(topic), raw)

PKeys == {"co2", "co", "pm25", "pm10", "temperature_c", "humidity_pct",
          "stove_temp_c", "fanOn", "buzzerOn", "profile", "windowOpen"}

canonicalPayload(src) ==
    [k \in PKeys |->
        CASE k = "co2"           -> pickNumber(<<Prop(src, "co2"), Prop(src, "co2_ppm")>>)
          [] k = "co"            -> pickNumber(<<Prop(src, "co"), Prop(src, "co_ppm")>>)
          [] k = "pm25"          -> pickNumber(<<Prop(src, "pm25"), Prop(src, "pm25_ugm3"), Prop(src, "pm2_5"), Prop(src, "pm2_5_ugm3")>>)
          [] k = "pm10"          -> pickNumber(<<Prop(src, "pm10"), Prop(src, "pm10_ugm3")>>)
          [] k = "temperature_c" -> pickNumber(<<Prop(src, "temperature_c"), Prop(src, "temp_c"), Prop(src, "temperature")>>)
          [] k = "humidity_pct"  -> pickNumber(<<Prop(src, "humidity_pct"), Prop(src, "humidity")>>)
          [] k = "stove_temp_c"  -> pickNumber(<<Prop(src, "stove_temp_c"), Prop(src, "stove_temp")>>)
          [] k = "fanOn"         -> pickBoolean(Prop(src, "fanOn"))
          [] k = "buzzerOn"      -> pickBoolean(Prop(src, "buzzerOn"))
          [] k = "profile"       -> Prop(src, "profile")
          [] k = "windowOpen"    -> pickBoolean(Prop(src, "windowOpen"))]

\* normalizeMessage(topic, raw) raises a TypeError: `raw.ts` on null; new
\* Date(raw.ts), String(raw.deviceId) where no home field is truthy, or
\* String(raw.stream), of a truthy value that has no primitive value
normalizeThrows(raw) ==
    \/ raw.kind = "null"
    \/ toISOThrows(Get(raw, "ts"))
    \/ /\ ~Truthy(Get(raw, "homeId")) /\ ~Truthy(Get(raw, "home")) /\ ~Truthy(Get(raw, "h"))
       /\ extractHomeFromDeviceThrows(Get(raw, "deviceId"))
    \/ Truthy(Get(raw, "stream")) /\ ToStringThrows(Get(raw, "stream"))

\* normalizeMessage(topic, raw) for a raw on which it does not throw
\* if (!stream) { ... }: the stream the measurements tell when neither the
\* message nor the topic gave one
streamFromPayload(stream, payload) ==
    IF Truthy(stream) THEN stream
    ELSE IF isFiniteNumber(payload["stove_temp_c"]) THEN Str(S_STOVE)
    ELSE IF \/ isFiniteNumber(payload["co2"])
            \/ isFiniteNumber(payload["co"])
            \/ isFiniteNumber(payload["pm25"])
            \/ isFiniteNumber(payload["pm10"]) THEN Str(S_AIR)
    ELSE stream

\* return { ts, homeId, deviceId, stream, payload }
Normalized(ts, homeId, deviceId, stream, payload) ==
    [ts |-> ts, homeId |-> homeId, deviceId |-> deviceId,
     stream |-> streamFromPayload(stream, payload), payload |-> payload]

normalizeMessage(topic, raw) ==
    Normalized(toISO(Get(raw, "ts")),
               JsOr(Get(raw, "homeId"),
               JsOr(Get(raw, "home"),
               JsOr(Get(raw, "h"), extractHomeFromDevice(Get(raw, "deviceId"))))),
               JsOr(Get(raw, "deviceId"), Get(raw, "device")),
               JsOr(explicitStream(Get(raw, "stream")), inferStream(topic, raw)),
               canonicalPayload(PayloadSource(raw)))

\* ---------------------------------------------------- threshold evaluator
CO2_LIMIT    == 1000
CO2_DANGER   == 1500
CO_LIMIT     == 35
PM25_LIMIT   == 35
PM25_DANGER  == 100
STOVE_LIMIT  == 250

Item(type, level, value, limit) ==
    [type |-> type, level |-> level, value |-> value, limit |-> limit]

co2Items(p) ==
    IF isFiniteNumber(p["co2"]) /\ p["co2"].n > CO2_LIMIT
    THEN <<Item("CO2", IF p["co2"].n > CO2_DANGER THEN "danger" ELSE "warn", p["co2"].n, CO2_LIMIT)>>
    ELSE <<>>

coItems(p) ==
    IF isFiniteNumber(p["co"]) /\ p["co"].n > CO_LIMIT
    THEN <<Item("CO", "danger", p["co"].n, CO_LIMIT)>>
    ELSE <<>>

pm25Items(p) ==
    IF isFiniteNumber(p["pm25"]) /\ p["pm25"].n > PM25_LIMIT
    THEN <<Item("PM2_5", IF p["pm25"].n > PM25_DANGER THEN "danger" ELSE "warn", p["pm25"].n, PM25_LIMIT)>>
    ELSE <<>>

stoveItems(p) ==
    IF isFiniteNumber(p["stove_temp_c"]) /\ p["stove_temp_c"].n > STOVE_LIMIT
    THEN <<Item("STOVE_TEMP", "danger", p["stove_temp_c"].n, STOVE_LIMIT)>>
    ELSE <<>>

\* Mutant: the CO test is written before the CO2 test.
alertItems_CoFirst(p) == coItems(p) \o co2Items(p) \o pm25Items(p) \o stoveItems(p)

\* the `alerts` array built by maybePublishAlerts
alertItems(p) == co2Items(p) \o coItems(p) \o pm25Items(p) \o stoveItems(p)

\* ------------------------------------------------------ calls and sockets
NoMsg == [ts |-> Undef, homeId |-> Undef, deviceId |-> Undef, stream |-> Undef,
          payload |-> [k \in PKeys |-> Undef]]
NoRaw == [kind |-> "none", top |-> NoProps, pkind |-> "undefined", pay |-> NoProps]

\* One call the handler makes on a collaborator: op names the function, msg
\* the normalized message it is given, raw the parsed value it is given
\* (emitAlert on the alerts channel), items the alerts array it carries.
Call(op, msg, raw, items) == [op |-> op, msg |-> msg, raw |-> raw, items |-> items]

S_admin    == <<"a","d","m","i","n">>
\* `home:${homeId}`, where the template raises no error
HomeRoom(homeId) == <<"h","o","m","e",":">> \o String(homeId)

Emission(room, event, mid, call) == [room |-> room, event |-> event, mid |-> mid, call |-> call]

\* the call emitCommand(cmdObj), cmdObj being a payload of the dispatcher
CommandCall(cmdObj) ==
    [op |-> "emitCommand", msg |-> NoMsg, raw |-> NoRaw, items |-> <<>>, cmd |-> cmdObj]

\* reading x.homeId raises a TypeError: the object an emitter is given is
\* null (emitAlert with the parsed value `null`)
homeIdThrows(call) == call.op # "emitCommand" /\ call.raw.kind = "null"

\* x.homeId of the object a call carries, where the read raises no error:
\* cmdObj, the message built by the router (doc, or the record built by
\* maybePublishAlerts), or the parsed message of the alerts channel
HomeIdOf(call) ==
    CASE call.op = "emitCommand"                                     -> call.cmd.homeId
      [] call.op # "emitCommand" /\ call.raw.kind = "none"           -> call.msg.homeId
      [] call.op # "emitCommand" /\ call.raw.kind \notin {"none", "null"} ->
             Get(call.raw, "homeId")

\* an emitter raises a TypeError in its template `home:${x.homeId}`, on
\* the read of x.homeId or on its conversion to text, after
\* `if (!io) return` and before anything is emitted
emitThrows(ioReady, call) ==
    ioReady /\ (homeIdThrows(call) \/ ToStringThrows(HomeIdOf(call)))

\* the two emit calls of an emitter, the home room first
emitBoth(ioReady, event, mid, call) ==
    IF ~ioReady \/ emitThrows(ioReady, call) THEN <<>>
    ELSE << Emission(HomeRoom(HomeIdOf(call)), event, mid, call),
            Emission(S_admin, event, mid, call) >>

\* sockets.emitTelemetry(doc): doc carries the homeId that was saved
emitTelemetry(ioReady, mid, call) == emitBoth(ioReady, "telemetry", mid, call)

\* sockets.emitAlert(alertObj): alertObj is the parsed message on the alerts
\* channel, or the record built by maybePublishAlerts
emitAlert(ioReady, mid, call) == emitBoth(ioReady, "alert", mid, call)

\* Mutant: the command goes to the admin room only.
emitCommand_AdminOnly(ioReady, mid, call) ==
    IF ~ioReady \/ emitThrows(ioReady, call) THEN <<>>
    ELSE << Emission(S_admin, "command", mid, call) >>

\* sockets.emitCommand(cmdObj)
emitCommand(ioReady, mid, call) == emitBoth(ioReady, "command", mid, call)

\* what a sequence of calls pushes to the socket rooms
RECURSIVE SocketEmits(_, _, _)
SocketEmits(ioReady, mid, calls) ==
    IF calls = <<>> THEN <<>>
    ELSE LET c == Head(calls)
             e == CASE c.op = "emitTelemetry" -> emitTelemetry(ioReady, mid, c)
                    [] c.op = "emitAlert"     -> emitAlert(ioReady, mid, c)
                    [] OTHER                  -> <<>>
         IN e \o SocketEmits(ioReady, mid, Tail(calls))

\* the value JSON.parse reads back from what JSON.stringify writes for v:
\* a number that is not finite is written as null, and so is an undefined
\* element of an array
RECURSIVE JsonValue(_)
JsonValue(v) ==
    CASE v \in {Infinity, NegInfinity, Undef} -> Null
      [] v.t = "array" -> Arr([i \in 1..Len(v.items) |-> JsonValue(v.items[i])])
      [] OTHER -> v

\* what a sequence of calls hands to client.publish: the record as
\* JSON.stringify writes it
RECURSIVE BusPublishes(_, _)
BusPublishes(mid, calls) ==
    IF calls = <<>> THEN <<>>
    ELSE LET c == Head(calls)
             e == IF c.op = "publish"
                  THEN << [topic |-> T_ALERTS, mid |-> mid,
                           homeId |-> JsonValue(c.msg.homeId),
                           deviceId |-> JsonValue(c.msg.deviceId),
                           stream |-> JsonValue(c.msg.stream),
                           alerts |-> c.items] >>
                  ELSE <<>>
         IN e \o BusPublishes(mid, Tail(calls))

\* ------------------------------------------------------ the message handler
\* Mutant: the `if (alerts.length)` test is dropped.
maybePublishAlerts_NoLengthCheck(clientSet, msg) ==
    IF ~clientSet THEN <<>>
    ELSE << Call("publish", msg, NoRaw, alertItems(msg.payload)),
            Call("emitAlert", msg, NoRaw, alertItems(msg.payload)) >>

\* Mutant: only the first breach is reported.
maybePublishAlerts_FirstItemOnly(clientSet, msg) ==
    IF ~clientSet THEN <<>>
    ELSE IF Len(alertItems(msg.payload)) # 0
         THEN << Call("publish", msg, NoRaw, <<Head(alertItems(msg.payload))>>),
                 Call("emitAlert", msg, NoRaw, <<Head(alertItems(msg.payload))>>) >>
         ELSE <<>>

\* maybePublishAlerts(msg): the calls it makes
\* if (alerts.length): one publish and one emitAlert with the alerts
publishAlerts(msg, alerts) ==
    IF Len(alerts) # 0
    THEN << Call("publish", msg, NoRaw, alerts), Call("emitAlert", msg, NoRaw, alerts) >>
    ELSE <<>>

maybePublishAlerts(clientSet, msg) ==
    IF ~clientSet THEN <<>> ELSE publishAlerts(msg, alertItems(msg.payload))

\* Mutant: text that is not JSON yields an empty value instead of raising.
JSONparse_Lenient(buf) == [ok |-> TRUE, value |-> buf.value]

\* A Buffer received from the bus: json says whether its text is valid JSON,
\* value is the value that text denotes.
JSONparse(buf) == [ok |-> buf.json, value |-> buf.value]

Outcome(pc, why, msg, calls) == [pc |-> pc, why |-> why, msg |-> msg, calls |-> calls]

\* Mutant: only the homeId is required.
missingIds_HomeOnly(msg) == ~Truthy(msg.homeId)

\* if (!msg.homeId || !msg.deviceId)
missingIds(msg) == ~Truthy(msg.homeId) \/ ~Truthy(msg.deviceId)

\* if (!msg.stream)
missingStream(msg) == ~Truthy(msg.stream)

\* the template of the log line raises a TypeError: msg.homeId or
\* msg.deviceId has no primitive value (msg.stream and msg.ts are strings or
\* undefined)
logThrows(msg) == ToStringThrows(msg.homeId) \/ ToStringThrows(msg.deviceId)

\* the log line and the checks between normalizeMessage and the first
\* await, on the parsed value raw and the message msg made of it
route(topic, raw, msg) ==
    IF logThrows(msg) THEN Outcome("rejected", "TypeError", NoMsg, <<>>)
    ELSE IF topic = T_ALERTS
    THEN Outcome("returned", "alert", msg, << Call("emitAlert", NoMsg, raw, <<>>) >>)
    ELSE IF missingIds(msg)
    THEN Outcome("returned", "missingId", msg, <<>>)
    ELSE IF missingStream(msg)
    THEN Outcome("returned", "noStream", msg, <<>>)
    ELSE Outcome("upsert", "", msg, << Call("upsertFromIngest", msg, NoRaw, <<>>) >>)

\* Mutant: a message on the alerts channel is relayed and published again.
onMessage_RepublishesAlerts(topic, buf) ==
    IF ~JSONparse(buf).ok THEN Outcome("returned", "nonjson", NoMsg, <<>>)
    ELSE IF normalizeThrows(JSONparse(buf).value)
    THEN Outcome("rejected", "TypeError", NoMsg, <<>>)
    ELSE IF logThrows(normalizeMessage(topic, JSONparse(buf).value))
    THEN Outcome("rejected", "TypeError", NoMsg, <<>>)
    ELSE IF topic = T_ALERTS
    THEN Outcome("returned", "alert", normalizeMessage(topic, JSONparse(buf).value),
                 << Call("emitAlert", NoMsg, JSONparse(buf).value, <<>>),
                    Call("publish", normalizeMessage(topic, JSONparse(buf).value), NoRaw, <<>>) >>)
    ELSE route(topic, JSONparse(buf).value, normalizeMessage(topic, JSONparse(buf).value))

\* The handler from its entry to its first await, return or throw.
onMessage(topic, buf) ==
    IF ~JSONparse(buf).ok THEN Outcome("returned", "nonjson", NoMsg, <<>>)
    ELSE IF normalizeThrows(JSONparse(buf).value)
    THEN Outcome("rejected", "TypeError", NoMsg, <<>>)
    ELSE route(topic, JSONparse(buf).value, normalizeMessage(topic, JSONparse(buf).value))

\* Mutant: the awaited upsert is outside the try block.
afterUpsert_Uncaught(msg, ok) ==
    IF ok THEN Outcome("save", "", msg, << Call("saveTelemetry", msg, NoRaw, <<>>) >>)
    ELSE Outcome("rejected", "upsertRejected", msg, <<>>)

\* Mutant: the alerts are published as soon as the device is known, before
\* the reading is saved.
afterUpsert_AlertsEarly(msg, ok) ==
    IF ok THEN Outcome("save", "", msg,
                       maybePublishAlerts(TRUE, msg) \o << Call("saveTelemetry", msg, NoRaw, <<>>) >>)
    ELSE Outcome("returned", "caughtUpsert", msg, <<>>)

\* The handler resumed after `await upsertFromIngest(...)`.
afterUpsert(msg, ok) ==
    IF ok THEN Outcome("save", "", msg, << Call("saveTelemetry", msg, NoRaw, <<>>) >>)
    ELSE Outcome("returned", "caughtUpsert", msg, <<>>)

\* the document saveTelemetry resolves with: the reading as it was stored,
\* which is what `doc.toObject ? doc.toObject() : doc` hands to emitTelemetry
SavedDoc(msg) == msg

\* Mutant: a rejected save is swallowed and the pipeline goes on.
afterSave_IgnoresFailure(clientSet, msg, ok) ==
    Outcome("returned", IF ok THEN "done" ELSE "caughtSave", msg,
            << Call("emitTelemetry", SavedDoc(msg), NoRaw, <<>>) >> \o maybePublishAlerts(clientSet, msg))

\* The handler resumed after `await saveTelemetry(...)`.
afterSave(clientSet, msg, ok) ==
    IF ok THEN Outcome("returned", "done", msg,
                       << Call("emitTelemetry", SavedDoc(msg), NoRaw, <<>>) >> \o maybePublishAlerts(clientSet, msg))
    ELSE Outcome("returned", "caughtSave", msg, <<>>)

\* ------------------------------------------------------------------ inputs
S_HOME_01       == <<"H","O","M","E","_","0","1">>
S_HOME_02       == <<"H","O","M","E","_","0","2">>
S_HOME123       == <<"H","O","M","E","1","2","3">>
S_AIR_HOME_01   == <<"A","I","R","_">> \o S_HOME_01
S_STOVE_HOME_02 == <<"S","T","O","V","E","_">> \o S_HOME_02
S_AIR_001       == <<"A","I","R","-","0","0","1">>
\* PROFILES.idle.label
S_idle          == <<"I","d","l","e"," ","/"," ","N","o"," ","c","o","o","k","i","n","g">>
\* a time as toISOString writes it
S_TS            == <<"2","0","2","4","-","0","1","-","0","1","T","0","0",":","0","0",":","0","0",
                     ".","0","0","0","Z">>
S_CO_DANGER     == <<"C","O","_","D","A","N","G","E","R">>
S_CO_40_ppm     == <<"C","O"," ","4","0"," ","p","p","m">>

\* the message of the specification's end-to-end scenario
RawAirAlarm   == JObject([ts |-> Str(S_TS), deviceId |-> Str(S_AIR_HOME_01),
                          co2 |-> Num(1700), pm25 |-> Num(40)])
\* a stove status message as the simulator builds it (StoveNode.payload)
RawStove      == JObject([ts |-> Str(S_TS), homeId |-> Str(S_HOME_02),
                          deviceId |-> Str(S_STOVE_HOME_02), profile |-> Str(S_idle),
                          stove_temp_c |-> Num(120), fanOn |-> Bool(FALSE), buzzerOn |-> Bool(FALSE)])
\* no home under any alias and none in the device identifier
RawNoHome     == JObject([deviceId |-> Str(S_AIR_001), co2_ppm |-> Num(1200)])
\* identifiers and no measurement that resolves a stream
RawNoMeasure  == JObject([homeId |-> Str(S_HOME_01), deviceId |-> Str(S_AIR_HOME_01),
                          profile |-> Str(S_idle)])
\* the message scripts/sendAir.js publishes: explicit stream, nested payload
RawNested     == JNested([ts |-> Str(S_TS), homeId |-> Str(S_HOME123),
                          deviceId |-> Str(S_AIR_001), stream |-> Str(S_AIR)],
                         [co2 |-> Num(700), co |-> Num(3), pm25 |-> Num(15), pm10 |-> Num(25),
                          temp |-> Num(25), humidity |-> Num(47)])
\* the alert the simulator publishes on shega/alerts: ts, homeId, type, message
\* (no device identifier)
RawSimAlert   == JObject([ts |-> Str(S_TS), homeId |-> Str(S_HOME_01),
                          type |-> Str(S_CO_DANGER), message |-> Str(S_CO_40_ppm)])
\* {"homeId":{"toString":1}}: a home identifier that has no primitive value,
\* and no device identifier
RawHomeToString   == JObject([homeId |-> Obj(<<"toString">>)])
\* a device identifier that has no primitive value, beside a home and beside
\* none
RawDeviceToString == JObject([homeId |-> Str(S_HOME_01), device |-> Obj(<<"toString">>),
                              co2 |-> Num(1200)])
RawDeviceOnly     == JObject([deviceId |-> Obj(<<"toString">>)])
\* a stream, and a time, that has no primitive value
RawStreamToString == JObject([homeId |-> Str(S_HOME_01), deviceId |-> Str(S_AIR_HOME_01),
                              stream |-> Obj(<<"toString">>)])
RawTsToString     == JObject([ts |-> Arr(<<Obj(<<"toString">>)>>), homeId |-> Str(S_HOME_01),
                              deviceId |-> Str(S_AIR_HOME_01), co2 |-> Num(1200)])
\* identifiers that are objects with a primitive value, and a stream that
\* is a number
RawObjectIds      == JObject([homeId |-> Obj(<<>>), deviceId |-> Obj(<<"valueOf">>),
                              stream |-> Num(5), co2 |-> Num(1200)])

\* {"homeId":1e999,...}: a home identifier that JSON.parse reads as Infinity,
\* beside a breach
RawInfiniteHome   == JObject([homeId |-> Infinity, deviceId |-> Str(S_AIR_001),
                              co2 |-> Num(1200)])

NonJson == [json |-> FALSE, value |-> NoRaw]
Json(v) == [json |-> TRUE, value |-> v]

\* topics that match the filters the router subscribes with
Topics == {T_AIRDATA, T_STOVE, T_OTHERDATA, T_ALERTS}

In(topic, buf) == [topic |-> topic, buf |-> buf]

\* The messages the bus delivers: text that is not JSON on every topic, each
\* kind of JSON value on a telemetry topic and on the alerts channel, and
\* the object messages on the topics that decide how they are routed.
Inputs ==
    {In(t, NonJson) : t \in Topics}
    \cup {In(T_AIRDATA, Json(JNull)), In(T_ALERTS, Json(JNull)),
          In(T_AIRDATA, Json(JNumber)), In(T_ALERTS, Json(JString)),
          In(T_STOVE, Json(JArray)), In(T_ALERTS, Json(JArray)),
          In(T_AIRDATA, Json(RawAirAlarm)), In(T_OTHERDATA, Json(RawAirAlarm)),
          In(T_ALERTS, Json(RawAirAlarm)),
          In(T_STOVE, Json(RawStove)),
          In(T_AIRDATA, Json(RawNoHome)),
          In(T_STOVE, Json(RawNoMeasure)), In(T_OTHERDATA, Json(RawNoMeasure)),
          In(T_AIRDATA, Json(RawNested)),
          In(T_AIRDATA, Json(RawSimAlert)), In(T_ALERTS, Json(RawSimAlert)),
          In(T_AIRDATA, Json(RawHomeToString)), In(T_ALERTS, Json(RawHomeToString)),
          In(T_AIRDATA, Json(RawDeviceToString)), In(T_OTHERDATA, Json(RawDeviceOnly)),
          In(T_STOVE, Json(RawStreamToString)), In(T_AIRDATA, Json(RawTsToString)),
          In(T_AIRDATA, Json(RawObjectIds)), In(T_AIRDATA, Json(RawInfiniteHome))}

\* onMessage on every input, computed once
OnMessageOf == [in \in Inputs |-> onMessage(in.topic, in.buf)]

\* ------------------------------------------------------------------- state
VARIABLES client,    \* the module-level `client` is set (startMqtt was called)
          io,        \* the sockets module's `io` is set (init was called)
          alive,     \* the process has not exited on an unhandled rejection
          n,         \* number of messages the bus has delivered
          h,         \* h[i]: the handler invocation of the i-th message
          registry,  \* Device Registry: the devices upserted
          store,     \* Telemetry Store: the documents appended, in order
          bus,       \* messages handed to client.publish, in order
          emitted,   \* events emitted to socket rooms, in order
          ev,        \* the evaluator run on its own (SpecEval)
          mqttModule,    \* what require('../mqtt') gives: "absent", "noPublish", "publisher"
          mqttPublisher, \* deviceControlService's cached `mqttPublisher`
          devices,       \* Device collection read by sendDeviceControl
          nc,            \* number of control commands issued
          d,             \* d[c]: the c-th sendDeviceControl invocation
          ctlBus,        \* control messages the broker accepted, in order
          stoves,        \* simulator: ST.populatedStoves
          fan,           \* one sockets emit call run on its own (SpecFan)
          nrm,           \* normalizeMessage run on its own (SpecNorm)
          echoed,        \* echoed[k]: the handler that got the router's k-th alert back
          sim,           \* simulator: one home with its stove node (SpecSim)
          sock           \* sockets: the connections and the events they received (SpecSock)

\* the state of the broker echo, the simulated home and the socket clients
more == <<echoed, sim, sock>>

\* the state of the dispatcher, the simulator and the single-function runs
rest == <<mqttModule, mqttPublisher, devices, nc, d, ctlBus, stoves, fan, nrm, more>>

vars == <<client, io, alive, n, h, registry, store, bus, emitted, ev, rest>>

Mids == 1..MaxMsgs

\* failed records which awaited collaborator call of the handler was rejected
NoHandler == [pc |-> "none", why |-> "", topic |-> <<>>, buf |-> NonJson,
              msg |-> NoMsg, calls |-> <<>>, failed |-> ""]

EvOff == [pc |-> "off", msg |-> NoMsg, calls |-> <<>>]

MoreOff ==
    /\ echoed = <<>>
    /\ sim = <<>>
    /\ sock = <<>>

\* nothing but the router runs
RestOff ==
    /\ mqttModule = "absent"
    /\ mqttPublisher = "unset"
    /\ devices = {}
    /\ nc = 0
    /\ d = <<>>
    /\ ctlBus = <<>>
    /\ stoves = <<>>
    /\ fan = <<>>
    /\ nrm = <<>>
    /\ MoreOff

Init ==
    /\ client = FALSE
    /\ io = FALSE
    /\ alive = TRUE
    /\ n = 0
    /\ h = [i \in Mids |-> NoHandler]
    /\ registry = {}
    /\ store = <<>>
    /\ bus = <<>>
    /\ emitted = <<>>
    /\ ev = EvOff
    /\ RestOff

\* startMqtt(): mqtt.connect and the handlers are installed
StartMqtt ==
    /\ alive /\ ~client
    /\ client' = TRUE
    /\ UNCHANGED <<io, alive, n, h, registry, store, bus, emitted, ev, rest>>

\* sockets.init(server)
SocketsInit ==
    /\ alive /\ ~io
    /\ io' = TRUE
    /\ UNCHANGED <<client, alive, n, h, registry, store, bus, emitted, ev, rest>>

\* the world after handler i ran a segment with outcome out
Resume(i, out, failed) ==
    /\ h' = [h EXCEPT ![i].pc = out.pc, ![i].why = out.why, ![i].msg = out.msg,
                      ![i].calls = h[i].calls \o out.calls, ![i].failed = failed]
    /\ bus' = bus \o BusPublishes(i, out.calls)
    /\ emitted' = emitted \o SocketEmits(io, i, out.calls)
    /\ alive' = (out.pc # "rejected")

\* client.on('message') runs on (topic, buf) as the next message
\* handler i ran on (topic, buf) up to its first await, return or throw,
\* with outcome out
Started(topic, buf, i, out) ==
    /\ h' = [h EXCEPT ![i] = [pc |-> out.pc, why |-> out.why, topic |-> topic,
                              buf |-> buf, msg |-> out.msg, calls |-> out.calls,
                              failed |-> ""]]
    /\ bus' = bus \o BusPublishes(i, out.calls)
    /\ emitted' = emitted \o SocketEmits(io, i, out.calls)
    /\ alive' = (out.pc # "rejected")

Inbound(topic, buf) ==
    /\ Started(topic, buf, n + 1, onMessage(topic, buf))
    /\ n' = n + 1

\* client.on('message'): the bus delivers one message
Deliver ==
    /\ alive /\ client /\ n < MaxMsgs
    /\ \E in \in Inputs : Started(in.topic, in.buf, n + 1, OnMessageOf[in])
    /\ n' = n + 1
    /\ UNCHANGED <<client, io, registry, store, ev, rest>>

\* Device Registry: upsertFromIngest({homeId, deviceId, stream}) succeeds
upsertFromIngest(reg, msg) ==
    reg \cup {[homeId |-> msg.homeId, deviceId |-> msg.deviceId, stream |-> msg.stream]}

\* Telemetry Store: saveTelemetry({...}) succeeds and appends the document
saveTelemetry(st, mid, msg) ==
    Append(st, [mid |-> mid, homeId |-> msg.homeId, deviceId |-> msg.deviceId,
                stream |-> msg.stream, payload |-> msg.payload, ts |-> msg.ts])

UpsertOk ==
    \E i \in Mids :
        /\ alive /\ h[i].pc = "upsert"
        /\ registry' = upsertFromIngest(registry, h[i].msg)
        /\ Resume(i, afterUpsert(h[i].msg, TRUE), "")
        /\ UNCHANGED <<client, io, n, store, ev, rest>>

UpsertFail ==
    \E i \in Mids :
        /\ alive /\ h[i].pc = "upsert"
        /\ Resume(i, afterUpsert(h[i].msg, FALSE), "upsert")
        /\ UNCHANGED <<client, io, n, registry, store, ev, rest>>

SaveOk ==
    \E i \in Mids :
        /\ alive /\ h[i].pc = "save"
        /\ store' = saveTelemetry(store, i, h[i].msg)
        /\ Resume(i, afterSave(client, h[i].msg, TRUE), "")
        /\ UNCHANGED <<client, io, n, registry, ev, rest>>

SaveFail ==
    \E i \in Mids :
        /\ alive /\ h[i].pc = "save"
        /\ Resume(i, afterSave(client, h[i].msg, FALSE), "save")
        /\ UNCHANGED <<client, io, n, registry, store, ev, rest>>

Next == StartMqtt \/ SocketsInit \/ Deliver \/ UpsertOk \/ UpsertFail \/ SaveOk \/ SaveFail

Spec == Init /\ [][Next]_vars

\* ------------------------------------------- the evaluator run on its own
\* Values around every threshold of the alerting path and of the simulator's
\* THRESH table, and the absent value.
Co2Values   == {Undef, Num(999), Num(1000), Num(1001), Num(1499), Num(1500), Num(1501), Num(1600)}
CoValues    == {Undef, Num(14), Num(15), Num(20), Num(34), Num(35), Num(36)}
Pm25Values  == {Undef, Num(34), Num(35), Num(36), Num(99), Num(100), Num(101)}
StoveValues == {Undef, Num(179), Num(180), Num(200), Num(249), Num(250), Num(251)}

EvalMsg(co2, co, pm25, stove) ==
    [ts |-> Str(S_NOW), homeId |-> Str(S_HOME_01), deviceId |-> Str(S_AIR_HOME_01),
     stream |-> Str(S_AIR),
     payload |-> [k \in PKeys |->
                    CASE k = "co2"          -> co2
                      [] k = "co"           -> co
                      [] k = "pm25"         -> pm25
                      [] k = "stove_temp_c" -> stove
                      [] OTHER              -> Undef]]

InitEval ==
    /\ client = TRUE
    /\ io \in BOOLEAN
    /\ alive = TRUE
    /\ n = 0
    /\ h = [i \in Mids |-> NoHandler]
    /\ registry = {}
    /\ store = <<>>
    /\ bus = <<>>
    /\ emitted = <<>>
    /\ \E co2 \in Co2Values, co \in CoValues, pm25 \in Pm25Values, stove \in StoveValues :
          ev = [pc |-> "ready", msg |-> EvalMsg(co2, co, pm25, stove), calls |-> <<>>]
    /\ RestOff

\* maybePublishAlerts(msg) called on a persisted reading
EvalAlerts ==
    /\ ev.pc = "ready"
    /\ LET calls == maybePublishAlerts(client, ev.msg) IN
        /\ ev' = [ev EXCEPT !.pc = "done", !.calls = calls]
        /\ bus' = bus \o BusPublishes(0, calls)
        /\ emitted' = emitted \o SocketEmits(io, 0, calls)
    /\ UNCHANGED <<client, io, alive, n, h, registry, store, rest>>

NextEval == EvalAlerts

SpecEval == InitEval /\ [][NextEval]_vars


\* ------------------------------------------------- the command dispatcher
S_STOVENODE     == <<"S","T","O","V","E","N","O","D","E">>
S_AIRNODE       == <<"A","I","R","N","O","D","E">>
S_STOVE_HOME_01 == <<"S","T","O","V","E","_">> \o S_HOME_01
S_STOVE_HOME_03 == <<"S","T","O","V","E","_","H","O","M","E","_","0","3">>
S_control       == <<"c","o","n","t","r","o","l">>

\* A document of the Device collection, and the `null` of a lookup that
\* matched none.
Device(deviceId, homeId, type) ==
    [deviceId |-> Str(deviceId), homeId |-> Str(homeId), type |-> Str(type)]
NoDevice == [deviceId |-> Null, homeId |-> Null, type |-> Null]

DeviceDocs == { Device(S_STOVE_HOME_01, S_HOME_01, S_STOVENODE),
                Device(S_STOVE_HOME_02, S_HOME_02, S_STOVENODE),
                Device(S_AIR_HOME_01,   S_HOME_01, S_AIRNODE) }

\* await Device.findOne({ deviceId }).lean()
findOne(devs, deviceId) ==
    IF \E x \in devs : x.deviceId = deviceId
    THEN CHOOSE x \in devs : x.deviceId = deviceId
    ELSE NoDevice

\* what require('../mqtt') can do: raise an error ("absent"), give a module
\* whose `publish` is no function ("noPublish"), or give the publisher
MqttModules == {"absent", "noPublish", "publisher"}

\* getMqtt(): the new value of `mqttPublisher`, which it also returns; a
\* cached module is returned, and require runs again after undefined and
\* after null
getMqtt(cached, module) ==
    IF cached \in {"noPublish", "publisher"} THEN cached
    ELSE IF module = "absent" THEN "null" ELSE module

\* publish(topic, json) of the mqtt service: throws unless the client is set;
\* otherwise hands the message to client.publish without a callback and
\* returns undefined
publish(clientSet) == IF ~clientSet THEN "throws" ELSE "returns"

\* Mutant: commands go out on the status topic of the type.
controlTopic_Status(type) ==
    S_shega \o <<"/">> \o toLowerCase(type) \o <<"/","s","t","a","t","u","s">>

\* `shega/${lowerType}/control`
controlTopic(type) ==
    S_shega \o <<"/">> \o toLowerCase(type) \o <<"/">> \o S_control

\* the properties of obj that JSON.stringify writes, each with the value
\* written: an undefined property is left out
Defined(obj) ==
    [k \in {x \in DOMAIN obj : obj[x].t # "undefined"} |-> JsonValue(obj[k])]

\* JSON.stringify(payload) and JSON.parse of it: the text of a control
\* message is held as its top-level scalar properties and the properties of
\* its `command` object
JSONstringify(payload) ==
    [top |-> Defined([deviceId |-> payload.deviceId, homeId |-> payload.homeId,
                      ts |-> payload.ts]),
     hasCommand |-> TRUE,
     command |-> Defined(payload.command)]

NoPayload == [deviceId |-> Undef, homeId |-> Undef, command |-> NoProps, ts |-> Undef]

\* what sendDeviceControl settles to
Settled(pc, error, status, topic, payload, cached) ==
    [pc |-> pc, error |-> error, status |-> status, topic |-> topic,
     payload |-> payload, mqttPublisher |-> cached]

\* Mutant: the `if (!device)` test is dropped, so device.type is read on null.
sendDeviceControl_NoDeviceTest(device, command, cached, module, clientSet) ==
    LET mqtt == getMqtt(cached, module) IN
    IF mqtt # "publisher"
    THEN Settled("rejected", "MQTT publisher not available", 500, <<>>, NoPayload, mqtt)
    ELSE IF device.type.t # "string"
    THEN Settled("rejected", "TypeError", 0, <<>>, NoPayload, mqtt)
    ELSE LET payload == [deviceId |-> device.deviceId, homeId |-> device.homeId,
                         command |-> command, ts |-> Str(S_NOW)] IN
         IF publish(clientSet) = "throws"
         THEN Settled("rejected", "MQTT not started", 0, controlTopic(device.type.s), payload, mqtt)
         ELSE Settled("returned", "", 0, controlTopic(device.type.s), payload, mqtt)

\* sendDeviceControl(deviceId, command) from the point where findOne resolved
\* with `device`
\* if (!mqtt || typeof mqtt.publish !== 'function')
sendDeviceControl(device, command, cached, module, clientSet) ==
    IF device = NoDevice
    THEN Settled("rejected", "Device not found", 404, <<>>, NoPayload, cached)
    ELSE LET mqtt == getMqtt(cached, module) IN
    IF mqtt # "publisher"
    THEN Settled("rejected", "MQTT publisher not available", 500, <<>>, NoPayload, mqtt)
    ELSE IF device.type.t # "string"
    THEN Settled("rejected", "TypeError", 0, <<>>, NoPayload, mqtt)
    ELSE LET payload == [deviceId |-> device.deviceId, homeId |-> device.homeId,
                         command |-> command, ts |-> Str(S_NOW)] IN
         IF publish(clientSet) = "throws"
         THEN Settled("rejected", "MQTT not started", 0, controlTopic(device.type.s), payload, mqtt)
         ELSE Settled("returned", "", 0, controlTopic(device.type.s), payload, mqtt)

\* ---------------------------------------------- the simulator's control path
\* s.split("/")
RECURSIVE split(_)
split(s) ==
    IF \A k \in 1..Len(s) : s[k] # "/" THEN << s >>
    ELSE LET k == CHOOSE x \in 1..Len(s) : s[x] = "/" /\ \A y \in 1..(x - 1) : s[y] # "/"
         IN << SubSeq(s, 1, k - 1) >> \o split(SubSeq(s, k + 1, Len(s)))

\* the broker's test of a topic against a subscription filter with `+` levels
topicMatches(filter, topic) ==
    LET f == split(filter)
        t == split(topic) IN
    /\ Len(f) = Len(t)
    /\ \A k \in 1..Len(f) : f[k] = <<"+">> \/ f[k] = t[k]

TOPIC_CTRL_BASE == S_shega \o <<"/">> \o toLowerCase(S_STOVENODE) \o <<"/">> \o S_control
\* `${TOPIC_CTRL_BASE}/+`
SimFilter == TOPIC_CTRL_BASE \o <<"/","+">>

\* a stove of ST.populatedStoves
Stove(fanOn, buzzerOn) == [fanOn |-> fanOn, buzzerOn |-> buzzerOn]
StoveIds == {S_STOVE_HOME_01, S_STOVE_HOME_02}

\* mqttClient.on("message"): the stoves after the handler ran
onControl(map, topic, text) ==
    LET parts    == split(topic)
        targetId == parts[Len(parts)] IN
    IF targetId = <<>> THEN map
    ELSE IF targetId \notin DOMAIN map THEN map
    ELSE LET fanOn    == Prop(text.top, "fanOn")
             buzzerOn == Prop(text.top, "buzzerOn") IN
         [map EXCEPT ![targetId].fanOn    = IF fanOn.t = "boolean" THEN fanOn.n = 1 ELSE @,
                     ![targetId].buzzerOn = IF buzzerOn.t = "boolean" THEN buzzerOn.n = 1 ELSE @]

\* ------------------------------------------- dispatcher and simulator: state
\* STOVE_HOME_03 is in no collection
DeviceIds == {Str(S_STOVE_HOME_02), Str(S_AIR_HOME_01), Str(S_STOVE_HOME_03)}
\* {"fanOn":1e999} is a request body JSON.parse reads as {fanOn: Infinity}
Commands  == { [fanOn |-> Bool(TRUE)], [fanOn |-> Bool(FALSE)], [fanOn |-> Infinity] }
\* the calls of sendDeviceControl: every command for the stove, one for the
\* air node and one for the device no collection holds
DispatchCalls ==
    { c \in [deviceId : DeviceIds, command : Commands] :
          c.deviceId = Str(S_STOVE_HOME_02) \/ c.command = [fanOn |-> Bool(TRUE)] }
OperatorTexts == { [fanOn |-> Bool(TRUE)], [fanOn |-> Bool(FALSE)], [buzzerOn |-> Bool(TRUE)] }

\* handed: the message was handed to client.publish; sent: the client has
\* dealt with it; accepted: the broker took it
NoDispatch(deviceId, command) ==
    [pc |-> "findOne", deviceId |-> deviceId, command |-> command, device |-> NoDevice,
     error |-> "", status |-> 0, topic |-> <<>>, payload |-> NoPayload,
     handed |-> FALSE, order |-> 0, sent |-> FALSE, accepted |-> FALSE]

\* the filters the router subscribes with
RouterFilters == { S_shega \o <<"/","+","/","d","a","t","a">>,
                   S_shega \o <<"/","+","/","s","t","a","t","u","s">>,
                   T_ALERTS }

\* the broker has the router among the receivers of a topic
routerReceives(topic) == \E f \in RouterFilters : topicMatches(f, topic)

\* toRouter records whether the broker handed the message to the router
CtlMessage(from, cid, topic, text) ==
    [from |-> from, cid |-> cid, topic |-> topic, text |-> text, routed |-> FALSE,
     toRouter |-> FALSE]

InitCtl ==
    /\ client = FALSE
    /\ io = FALSE
    /\ alive = TRUE
    /\ n = 0
    /\ h = [i \in Mids |-> NoHandler]
    /\ registry = {}
    /\ store = <<>>
    /\ bus = <<>>
    /\ emitted = <<>>
    /\ ev = EvOff
    /\ mqttModule \in MqttModules
    /\ mqttPublisher = "unset"
    /\ devices = DeviceDocs
    /\ nc = 0
    /\ d = <<>>
    /\ ctlBus = <<>>
    /\ stoves \in [StoveIds -> {Stove(fanOn, FALSE) : fanOn \in BOOLEAN}]
    /\ fan = <<>>
    /\ nrm = <<>>
    /\ MoreOff

\* a caller invokes sendDeviceControl(deviceId, command); findOne is awaited
Dispatch ==
    /\ nc < MaxCmds
    /\ \E call \in DispatchCalls :
          d' = Append(d, NoDispatch(call.deviceId, call.command))
    /\ nc' = nc + 1
    /\ UNCHANGED <<client, io, alive, n, h, registry, store, bus, emitted, ev,
                   mqttModule, mqttPublisher, devices, ctlBus, stoves, fan, nrm, more>>

\* findOne resolves and sendDeviceControl runs on, to a throw or to
\* `await mqtt.publish(...)`: the message is handed to client.publish and the
\* call waits; order is the place of the message among those handed over
FindOneResolves ==
    \E c \in 1..Len(d) :
        LET device == findOne(devices, d[c].deviceId)
            r == sendDeviceControl(device, d[c].command, mqttPublisher, mqttModule, client)
            handed == r.pc = "returned" IN
        /\ d[c].pc = "findOne"
        /\ d' = [d EXCEPT ![c] = [@ EXCEPT !.pc = IF handed THEN "publish" ELSE r.pc,
                                           !.device = device, !.error = r.error,
                                           !.status = r.status, !.topic = r.topic,
                                           !.payload = r.payload, !.handed = handed,
                                           !.order = IF handed
                                                     THEN 1 + Cardinality({x \in 1..Len(d) : d[x].handed})
                                                     ELSE 0]]
        /\ mqttPublisher' = r.mqttPublisher
        /\ UNCHANGED <<client, io, alive, n, h, registry, store, bus, emitted, ev,
                       mqttModule, devices, nc, ctlBus, stoves, fan, nrm, more>>

\* the await of publish's return value is over: sendDeviceControl returns
\* { ok: true, topic, payload }
PublishAwaited ==
    \E c \in 1..Len(d) :
        /\ d[c].pc = "publish"
        /\ d' = [d EXCEPT ![c].pc = "returned"]
        /\ UNCHANGED <<client, io, alive, n, h, registry, store, bus, emitted, ev,
                       mqttModule, mqttPublisher, devices, nc, ctlBus, stoves, fan, nrm, more>>

\* the client sends the oldest message handed to client.publish and not yet
\* sent: the broker takes it, or it is lost (publish has no callback)
TransportSends ==
    \E c \in 1..Len(d), accepted \in BOOLEAN :
        /\ d[c].handed /\ ~d[c].sent
        /\ \A x \in 1..Len(d) : (d[x].handed /\ d[x].order < d[c].order) => d[x].sent
        /\ d' = [d EXCEPT ![c].sent = TRUE, ![c].accepted = accepted]
        /\ ctlBus' = IF accepted
                     THEN Append(ctlBus, CtlMessage("dispatcher", c, d[c].topic,
                                                    JSONstringify(d[c].payload)))
                     ELSE ctlBus
        /\ UNCHANGED <<client, io, alive, n, h, registry, store, bus, emitted, ev,
                       mqttModule, mqttPublisher, devices, nc, stoves, fan, nrm, more>>

\* findOne rejects: the error propagates out of sendDeviceControl
FindOneRejects ==
    \E c \in 1..Len(d) :
        /\ d[c].pc = "findOne"
        /\ d' = [d EXCEPT ![c].pc = "rejected", ![c].error = "findOne failed"]
        /\ UNCHANGED <<client, io, alive, n, h, registry, store, bus, emitted, ev,
                       mqttModule, mqttPublisher, devices, nc, ctlBus, stoves, fan, nrm, more>>

\* another client of the broker publishes {fanOn: b} or {buzzerOn: b} on the
\* per-device topic shega/stovenode/control/<deviceId> the simulator documents
OperatorControl ==
    /\ nc < MaxCmds
    /\ nc' = nc + 1
    /\ \E id \in {S_STOVE_HOME_01, S_STOVE_HOME_03}, top \in OperatorTexts :
          /\ id = S_STOVE_HOME_01 \/ top = [fanOn |-> Bool(TRUE)]
          /\ ctlBus' = Append(ctlBus,
                           CtlMessage("operator", 0, TOPIC_CTRL_BASE \o <<"/">> \o id,
                                      [top |-> top, hasCommand |-> FALSE, command |-> NoProps]))
    /\ UNCHANGED <<client, io, alive, n, h, registry, store, bus, emitted, ev,
                   mqttModule, mqttPublisher, devices, d, stoves, fan, nrm, more>>

\* the broker routes the oldest message not yet routed: the simulator's
\* handler runs if the topic matches its subscription
BrokerRoutes ==
    \E k \in 1..Len(ctlBus) :
        /\ ~ctlBus[k].routed
        /\ \A j \in 1..(k - 1) : ctlBus[j].routed
        /\ ctlBus' = [ctlBus EXCEPT ![k].routed = TRUE,
                                    ![k].toRouter = routerReceives(ctlBus[k].topic)]
        /\ stoves' = IF topicMatches(SimFilter, ctlBus[k].topic)
                     THEN onControl(stoves, ctlBus[k].topic, ctlBus[k].text)
                     ELSE stoves
        /\ UNCHANGED <<client, io, alive, n, h, registry, store, bus, emitted, ev,
                       mqttModule, mqttPublisher, devices, nc, d, fan, nrm, more>>

NextCtl == StartMqtt \/ Dispatch \/ FindOneResolves \/ FindOneRejects
           \/ PublishAwaited \/ TransportSends \/ OperatorControl \/ BrokerRoutes

SpecCtl == InitCtl /\ [][NextCtl]_vars

\* ------------------------------------------ the sockets emitters on their own
\* Values of the homeId property of an emitted object: homes of the
\* simulator and of the scripts, an object without the property, a number,
\* an object, and an object and an array that have no primitive value.
FanHomeIds == {Str(S_HOME_01), Str(S_HOME_02), Str(S_HOME123), Undef, Num(5), Obj(<<>>),
               Obj(<<"toString">>), Arr(<<Str(S_HOME_01), Obj(<<"toString">>)>>)}

\* the objects handed to the three emitters
FanCalls ==
    { Call("emitTelemetry", [NoMsg EXCEPT !.homeId = x, !.stream = Str(S_AIR)], NoRaw, <<>>) :
          x \in FanHomeIds \ {Undef} }
    \cup { Call("emitAlert", [NoMsg EXCEPT !.homeId = x], NoRaw,
                << Item("CO", "danger", 36, CO_LIMIT) >>) : x \in FanHomeIds \ {Undef} }
    \cup { Call("emitAlert", NoMsg, JObject(Own([homeId |-> x, ts |-> Str(S_TS)])), <<>>) :
               x \in FanHomeIds }
    \cup { Call("emitAlert", NoMsg, JNull, <<>>) }
    \cup { CommandCall([NoPayload EXCEPT !.homeId = x, !.command = [fanOn |-> Bool(TRUE)]]) :
               x \in FanHomeIds }

InitFan ==
    /\ client = FALSE
    /\ io = FALSE
    /\ alive = TRUE
    /\ n = 0
    /\ h = [i \in Mids |-> NoHandler]
    /\ registry = {}
    /\ store = <<>>
    /\ bus = <<>>
    /\ emitted = <<>>
    /\ ev = EvOff
    /\ mqttModule = "absent"
    /\ mqttPublisher = "unset"
    /\ devices = {}
    /\ nc = 0
    /\ d = <<>>
    /\ ctlBus = <<>>
    /\ stoves = <<>>
    /\ fan = <<>>
    /\ nrm = <<>>
    /\ MoreOff

\* one of emitTelemetry(doc), emitAlert(alertObj), emitCommand(cmdObj) is
\* called; fan keeps the call, whether io was set and whether the emitter
\* raised an error
Emit(op) ==
    /\ Len(fan) < MaxEmits
    /\ \E call \in FanCalls :
        /\ call.op = op
        /\ fan' = Append(fan, [call |-> call, ioReady |-> io,
                               threw |-> emitThrows(io, call)])
        /\ emitted' = emitted \o
              (CASE op = "emitTelemetry" -> emitTelemetry(io, Len(fan) + 1, call)
                 [] op = "emitAlert"     -> emitAlert(io, Len(fan) + 1, call)
                 [] op = "emitCommand"   -> emitCommand(io, Len(fan) + 1, call))
    /\ UNCHANGED <<client, io, alive, n, h, registry, store, bus, ev,
                   mqttModule, mqttPublisher, devices, nc, d, ctlBus, stoves, nrm, more>>

EmitTelemetry == Emit("emitTelemetry")
EmitAlert     == Emit("emitAlert")
EmitCommand   == Emit("emitCommand")

NextFan == SocketsInit \/ EmitTelemetry \/ EmitAlert \/ EmitCommand

SpecFan == InitFan /\ [][NextFan]_vars

\* ---------------------------------- the normalizer and the guards on their own
\* a topic that matches shega/+/data and has `airnode` inside a longer level
T_AIRNODE2 == S_shega \o <<"/","a","i","r","n","o","d","e","2","/","d","a","t","a">>
\* a topic that matches shega/+/data with capital letters
T_AirNode  == S_shega \o <<"/","A","i","r","N","o","d","e","/","d","a","t","a">>
NormTopics == {T_AIRDATA, T_STOVE, T_OTHERDATA, T_AIRNODE2, T_AirNode}

S_air == <<"a","i","r">>
S_foo == <<"f","o","o">>
\* raw.stream: absent, lower and upper case names, a name of no stream, "";
\* the name "stra" and the sharp s, numbers, booleans, null, objects and
\* arrays
StreamFields == {Undef, Str(S_air), Str(S_STOVE), Str(S_foo), Str(<<>>),
                 Str(<<"s","t","r","a","U+00DF">>), Num(5), Num(0), Bool(TRUE), Bool(FALSE),
                 Null, Infinity, Obj(<<>>), Obj(<<"toString">>), Arr(<<>>),
                 Arr(<<Str(S_air)>>), Arr(<<Null, Obj(<<"toString">>)>>)}
\* raw.stove_temp_c: absent, a number, or the infinity of an overflowing
\* literal
StoveFields  == {Undef, Num(200), Infinity}
\* the air measurements of raw: none, one under a name or an alias, a co2
\* that is a string, and one that is not finite
AirFields    == { NoProps, [co2 |-> Num(700)], [co_ppm |-> Num(3)], [pm25_ugm3 |-> Num(15)],
                  [pm10 |-> Num(25)], [co2 |-> Str(<<"7","0","0">>)], [co2 |-> NegInfinity] }
\* raw.homeId: given or absent (AIR-001 names no home)
HomeFields   == {Str(S_HOME_01), Undef}

\* { ...a, ...b }
Merge(a, b) == [k \in DOMAIN a \cup DOMAIN b |-> IF k \in DOMAIN b THEN b[k] ELSE a[k]]

NormRaw(home, stream, stove, air) ==
    JObject(Merge(Own([deviceId |-> Str(S_AIR_001), homeId |-> home, stream |-> stream,
                           stove_temp_c |-> stove]), air))

NormIn(topic, raw) == [topic |-> topic, raw |-> raw]

\* device identifiers: with HOME_<2 digits>, without, with one digit only,
\* and with three digits
S_STOVE_HOME_07 == <<"S","T","O","V","E","_","H","O","M","E","_","0","7">>
S_STOVE_HOME_7  == <<"S","T","O","V","E","_","H","O","M","E","_","7">>
S_X_HOME_123    == <<"X","_","H","O","M","E","_","1","2","3">>
IdentityDevices == {S_STOVE_HOME_07, S_AIR_001, S_STOVE_HOME_7, S_X_HOME_123}
\* the home given under no alias or under one of homeId, home, h
IdentityHomes   == { NoProps, [homeId |-> Str(S_HOME_02)], [home |-> Str(S_HOME_02)],
                     [h |-> Str(S_HOME_02)] }

\* a stove message carrying its device identifier as `deviceId` or `device`
IdentityRaw(key, id, home) ==
    JObject(Merge(Merge([k \in {key} |-> Str(id)], home), [stove_temp_c |-> Num(120)]))

\* measurements under their names and aliases, some with a value that is
\* not a number, or not a finite one, under an earlier name
AliasFields ==
    { NoProps,
      [pm25 |-> Infinity, pm25_ugm3 |-> Num(15), co2 |-> NegInfinity],
      [stove_temp_c |-> Infinity, stove_temp |-> Num(180), co |-> Infinity, co_ppm |-> Infinity],
      [pm25_ugm3 |-> Num(15)],
      [pm25 |-> Num(11), pm25_ugm3 |-> Num(15)],
      [pm25 |-> Str(<<"1","1">>), pm2_5 |-> Num(9), pm2_5_ugm3 |-> Num(8)],
      [pm2_5_ugm3 |-> Num(8)],
      [co2_ppm |-> Num(1200), co_ppm |-> Num(3), pm10_ugm3 |-> Num(25)],
      [co2 |-> Null, co2_ppm |-> Num(1200), co |-> Num(4), co_ppm |-> Num(3)],
      [temp_c |-> Num(22), temperature |-> Num(23), humidity |-> Num(47)],
      [temperature_c |-> Bool(TRUE), temperature |-> Num(23), humidity_pct |-> Num(40),
       humidity |-> Num(47)],
      [stove_temp |-> Num(180)],
      [stove_temp_c |-> Num(120), stove_temp |-> Num(180)] }

\* the identifiers of the messages that carry the aliases
AliasIds == [homeId |-> Str(S_HOME_01), deviceId |-> Str(S_AIR_HOME_01)]

\* the kinds of a `payload` that is no object
PayloadKinds == {"array", "string", "number", "boolean", "null"}

\* the measurements flat in the message, nested under `payload` with other
\* values at the top level, or at the top level beside a `payload` that is
\* no object
AliasRaws ==
    { JObject(Merge(AliasIds, f)) : f \in AliasFields }
    \cup { JNested(Merge(AliasIds, [pm25 |-> Num(77), co2 |-> Num(555), stove_temp |-> Num(99)]), f) :
              f \in AliasFields }
    \cup { JPayload(Merge(AliasIds, [pm25 |-> Num(77), co2_ppm |-> Num(555)]), k) :
              k \in PayloadKinds }

NormInputs ==
    { NormIn(topic, NormRaw(home, stream, stove, air)) :
          topic \in NormTopics, home \in HomeFields, stream \in StreamFields,
          stove \in StoveFields, air \in AirFields }
    \cup { NormIn(T_STOVE, IdentityRaw(key, id, home)) :
               key \in {"deviceId", "device"}, id \in IdentityDevices, home \in IdentityHomes }
    \cup { NormIn(topic, raw) : topic \in {T_AIRDATA, T_OTHERDATA}, raw \in AliasRaws }

\* the router has started and the sockets are set up; nrm holds the message
\* the bus is about to deliver
InitNorm ==
    /\ client = TRUE
    /\ io = TRUE
    /\ alive = TRUE
    /\ n = 0
    /\ h = [i \in Mids |-> NoHandler]
    /\ registry = {}
    /\ store = <<>>
    /\ bus = <<>>
    /\ emitted = <<>>
    /\ ev = EvOff
    /\ mqttModule = "absent"
    /\ mqttPublisher = "unset"
    /\ devices = {}
    /\ nc = 0
    /\ d = <<>>
    /\ ctlBus = <<>>
    /\ stoves = <<>>
    /\ fan = <<>>
    /\ MoreOff
    /\ \E in \in NormInputs :
          nrm = [pc |-> "received", topic |-> in.topic, raw |-> in.raw,
                 msg |-> NoMsg, why |-> "", calls |-> <<>>]

\* client.on('message') runs on the message up to its first await, return
\* or throw; nrm keeps what normalizeMessage gave and why the handler
\* stopped.  The handler goes on as the first handler of the router
\* (UpsertOk, UpsertFail, SaveOk, SaveFail).
Handled(in, out) ==
    [in EXCEPT !.pc = "handled", !.msg = out.msg, !.why = out.why, !.calls = out.calls]

HandleTelemetry ==
    /\ alive /\ client /\ n < MaxMsgs
    /\ nrm.pc = "received"
    /\ Inbound(nrm.topic, Json(nrm.raw))
    /\ nrm' = Handled(nrm, onMessage(nrm.topic, Json(nrm.raw)))
    /\ UNCHANGED <<client, io, registry, store, ev,
                   mqttModule, mqttPublisher, devices, nc, d, ctlBus, stoves, fan, more>>

NextNorm == HandleTelemetry \/ UpsertOk \/ UpsertFail \/ SaveOk \/ SaveFail

SpecNorm == InitNorm /\ [][NextNorm]_vars

\* ----------------------------------- the router with the broker's echo
\* The parsed text of an alert record the router published: homeId,
\* deviceId, stream, ts and the `alerts` array, held as an object value
\* with the number of its items.
AlertJson(entry) ==
    JObject(Defined([homeId |-> entry.homeId, deviceId |-> entry.deviceId,
                     stream |-> entry.stream, ts |-> Str(S_NOW),
                     alerts |-> [t |-> "object", n |-> Len(entry.alerts), s |-> <<>>,
                                 items |-> <<>>]]))

\* a reading with two breaches, a reading with none, an alert of another
\* producer
LoopInputs == { In(T_AIRDATA, Json(RawAirAlarm)), In(T_STOVE, Json(RawStove)),
                In(T_ALERTS, Json(RawSimAlert)) }

\* the bus delivers a message of another client
DeliverReading ==
    /\ alive /\ client /\ n < MaxMsgs
    /\ \E in \in LoopInputs : Inbound(in.topic, in.buf)
    /\ UNCHANGED <<client, io, registry, store, ev, rest>>

\* the broker gives the router, a subscriber of shega/alerts, the oldest of
\* its own alert records not yet given back; echoed keeps the handler it got
EchoAlert ==
    /\ alive /\ client /\ n < MaxMsgs
    /\ Len(echoed) < Len(bus)
    /\ LET entry == bus[Len(echoed) + 1] IN
       Inbound(T_ALERTS, Json(AlertJson(entry)))
    /\ echoed' = Append(echoed, n + 1)
    /\ UNCHANGED <<client, io, registry, store, ev,
                   mqttModule, mqttPublisher, devices, nc, d, ctlBus, stoves, fan, nrm,
                   sim, sock>>

\* Mutant: a throwing emitTelemetry is caught by the outer catch.
afterSaveEmitThrows_OuterCatch(clientSet, msg) ==
    Outcome("returned", "caughtEmit", msg, << Call("emitTelemetry", SavedDoc(msg), NoRaw, <<>>) >>)

\* The handler resumed after `await saveTelemetry(...)` when emitTelemetry
\* throws: the inner try/catch swallows it and maybePublishAlerts runs.
afterSaveEmitThrows(clientSet, msg) ==
    Outcome("returned", "done", msg,
            << Call("emitTelemetry", SavedDoc(msg), NoRaw, <<>>) >> \o maybePublishAlerts(clientSet, msg))

\* saveTelemetry resolves and emitTelemetry throws, in its first emit or in
\* its second; with no socket server it returns at once and cannot throw
SaveOkEmitThrows ==
    \E i \in Mids, emits \in {0, 1} :
        LET out == afterSaveEmitThrows(client, h[i].msg) IN
        /\ alive /\ h[i].pc = "save"
        /\ io
        /\ store' = saveTelemetry(store, i, h[i].msg)
        /\ h' = [h EXCEPT ![i].pc = out.pc, ![i].why = out.why, ![i].msg = out.msg,
                          ![i].calls = h[i].calls \o out.calls, ![i].failed = "emit"]
        /\ bus' = bus \o BusPublishes(i, out.calls)
        /\ emitted' = emitted
                      \o SubSeq(emitTelemetry(io, i, Head(out.calls)), 1, emits)
                      \o SocketEmits(io, i, Tail(out.calls))
        /\ alive' = (out.pc # "rejected")
        /\ UNCHANGED <<client, io, n, registry, ev, rest>>

NextLoop == StartMqtt \/ SocketsInit \/ DeliverReading \/ EchoAlert
            \/ UpsertOk \/ SaveOk \/ SaveOkEmitThrows

SpecLoop == Init /\ [][NextLoop]_vars

\* ------------------------------------------------ the simulator's stove node
\* THRESH.STOVE_C and THRESH.CO_PPM.danger of the simulator
THRESH_STOVE_C_warn   == 180
THRESH_STOVE_C_danger == 250
THRESH_CO_PPM_danger  == 35
\* the default publish interval and the period of the physics timer, in ms
INTERVAL_MS == 60000
LOOP_MS     == 1000

\* The temperatures and CO levels of the simulator are fractions; they are
\* held in hundredths: 24996 is 249.96
Hundredths(x) == x * 100

\* round1(x) = Math.round(x * 10) / 10: x to one decimal, a half going up
round1(x) == ((x + 5) \div 10) * 10

\* Mutant: the buzzer stays on once a control message switched it on.
StoveNodeTick_Latched(stove, tempC, co) ==
    [stove EXCEPT !.buzzerOn = @ \/ tempC >= Hundredths(THRESH_STOVE_C_danger)
                                 \/ co >= Hundredths(THRESH_CO_PPM_danger)]

\* StoveNode.tick: the safety logic of the buzzer
StoveNodeTick(stove, tempC, co) ==
    LET tooHot == tempC >= Hundredths(THRESH_STOVE_C_danger)
        highCO == co >= Hundredths(THRESH_CO_PPM_danger) IN
    [stove EXCEPT !.buzzerOn = tooHot \/ highCO]

\* Home.tick, the safety line: the fan is switched on when the stove is
\* above the warn level and the draw of Math.random() is below 0.1
HomeSafety(stove, tempC, low) ==
    IF tempC > Hundredths(THRESH_STOVE_C_warn) /\ low
    THEN [stove EXCEPT !.fanOn = TRUE] ELSE stove

\* StoveNode.payload: the fields of the published stove reading, the
\* temperature rounded to one decimal
StovePayload(stove, tempC) ==
    [stove_temp_c |-> round1(tempC), fanOn |-> stove.fanOn, buzzerOn |-> stove.buzzerOn]

\* the stove temperatures and CO levels the physics step leaves (both are
\* clamped sums with noise), at and next to the thresholds: 180.00, 180.04,
\* 249.96, 250.00 and 34.99, 35.00
SimTemps == {18000, 18004, 24996, 25000}
SimCOs   == {3499, 3500}
\* the time between two runs of the timer callback
SimElapsed == {LOOP_MS, INTERVAL_MS}
\* the control topics of the home's stove and of a stove that is not simulated
SimControlTopics == {TOPIC_CTRL_BASE \o <<"/">> \o id : id \in {S_STOVE_HOME_01, S_STOVE_HOME_02}}

\* now is the time since the start of the epoch the first tick read, shifted
\* so that lastSent = 0 is one interval behind
InitSim ==
    /\ client = FALSE
    /\ io = FALSE
    /\ alive = TRUE
    /\ n = 0
    /\ h = [i \in Mids |-> NoHandler]
    /\ registry = {}
    /\ store = <<>>
    /\ bus = <<>>
    /\ emitted = <<>>
    /\ ev = EvOff
    /\ mqttModule = "absent"
    /\ mqttPublisher = "unset"
    /\ devices = {}
    /\ nc = 0
    /\ d = <<>>
    /\ ctlBus = <<>>
    /\ \E fanOn \in BOOLEAN : stoves = [id \in {S_STOVE_HOME_01} |-> Stove(fanOn, FALSE)]
    /\ fan = <<>>
    /\ nrm = <<>>
    /\ echoed = <<>>
    /\ sim = [tempC |-> Hundredths(35), co |-> Hundredths(1), now |-> INTERVAL_MS, lastSent |-> 0, steps |-> 0,
              published |-> <<>>, op |-> "init", before |-> Stove(FALSE, FALSE),
              beforeOp |-> "init"]
    /\ sock = <<>>

\* loop(): Home.tick of the home, with StoveNode.tick at its end
SimTick ==
    /\ sim.steps < MaxSimSteps
    /\ \E tempC \in SimTemps, co \in SimCOs, low \in BOOLEAN, elapsed \in SimElapsed :
          LET id    == S_STOVE_HOME_01
              now   == sim.now + elapsed
              safe  == HomeSafety(stoves[id], tempC, low)
              stove == StoveNodeTick(safe, tempC, co)
              due   == now - sim.lastSent >= INTERVAL_MS IN
          /\ stoves' = [stoves EXCEPT ![id] = stove]
          /\ sim' = [sim EXCEPT !.tempC = tempC, !.co = co, !.now = now,
                                !.lastSent = IF due THEN now ELSE @,
                                !.published = IF due THEN Append(@, StovePayload(stove, tempC))
                                              ELSE @,
                                !.steps = @ + 1, !.op = "tick",
                                !.before = stoves[id], !.beforeOp = sim.op]
    /\ UNCHANGED <<client, io, alive, n, h, registry, store, bus, emitted, ev,
                   mqttModule, mqttPublisher, devices, nc, d, ctlBus, fan, nrm, echoed, sock>>

\* mqttClient.on("message") for a message on a topic of the subscription
SimControl ==
    /\ sim.steps < MaxSimSteps
    /\ \E topic \in SimControlTopics, top \in OperatorTexts :
          /\ topicMatches(SimFilter, topic)
          /\ stoves' = onControl(stoves, topic,
                                 [top |-> top, hasCommand |-> FALSE, command |-> NoProps])
    /\ sim' = [sim EXCEPT !.steps = @ + 1, !.op = "control",
                          !.before = stoves[S_STOVE_HOME_01], !.beforeOp = sim.op]
    /\ UNCHANGED <<client, io, alive, n, h, registry, store, bus, emitted, ev,
                   mqttModule, mqttPublisher, devices, nc, d, ctlBus, fan, nrm, echoed, sock>>

NextSim == SimTick \/ SimControl

SpecSim == InitSim /\ [][NextSim]_vars

\* ------------------------------------------- the sockets: handshake and rooms
\* A token as jwt.verify sees it: sig tells whether verification with the
\* secret succeeds; role and homes are the claims of its payload, undefined
\* when the payload has no such property.
NoToken == [sig |-> "none", role |-> Undef, homes |-> Undef]
Token(sig, role, homes) == [sig |-> sig, role |-> role, homes |-> homes]
S_user == <<"u","s","e","r">>

\* socket.handshake: auth.token, and the scheme and the token of the
\* authorization header
Handshake(viaAuth, scheme, hdrToken) ==
    [viaAuth |-> viaAuth, scheme |-> scheme, hdrToken |-> hdrToken]

\* viaAuth || (hdr.startsWith('Bearer ') ? hdr.split(' ')[1] : null)
handshakeToken(hs) ==
    IF hs.viaAuth.sig # "none" THEN hs.viaAuth
    ELSE IF hs.scheme = "Bearer" THEN hs.hdrToken
    ELSE NoToken

NoUser == [role |-> Undef, homes |-> Arr(<<>>)]

\* the io.use middleware: the error handed to next, or socket.user
ioUse(hs) ==
    LET token == handshakeToken(hs) IN
    IF token.sig = "none" THEN [error |-> "Missing token", user |-> NoUser]
    ELSE IF token.sig # "valid" THEN [error |-> "Invalid token", user |-> NoUser]
    ELSE [error |-> "",
          user |-> [role |-> token.role, homes |-> JsOr(token.homes, Arr(<<>>))]]

\* homes.forEach(h => socket.join(`home:${h}`)) raises a TypeError: homes
\* is no array and has no forEach, or the template raises it for an element
onConnectionThrows(user) ==
    \/ user.homes.t # "array"
    \/ \E k \in 1..Len(user.homes.items) : ToStringThrows(user.homes.items[k])

\* the elements of homes the handler joins the rooms of: all, or those
\* before the first one whose template raises an error
JoinedHomes(homes) ==
    IF homes.t # "array" THEN <<>>
    ELSE SubSeq(homes.items, 1,
                CHOOSE k \in 0..Len(homes.items) :
                    /\ \A j \in 1..k : ~ToStringThrows(homes.items[j])
                    /\ (k = Len(homes.items) \/ ToStringThrows(homes.items[k + 1])))

\* Mutant: every connected client joins the admin room.
onConnection_AdminForAll(user) ==
    {S_admin} \cup {HomeRoom(JoinedHomes(user.homes)[k]) : k \in 1..Len(JoinedHomes(user.homes))}

\* the io.on('connection') handler: the rooms the socket joins, the admin
\* room first
onConnection(user) ==
    (IF user.role = Str(S_admin) THEN {S_admin} ELSE {})
    \cup {HomeRoom(JoinedHomes(user.homes)[k]) : k \in 1..Len(JoinedHomes(user.homes))}

\* io.to(room).emit(event, obj) for each emission in turn: what a socket
\* in the given rooms receives
RECURSIVE Received(_, _)
Received(rooms, emits) ==
    IF emits = <<>> THEN <<>>
    ELSE (IF Head(emits).room \in rooms THEN <<Head(emits)>> ELSE <<>>)
         \o Received(rooms, Tail(emits))

\* the tokens: of a user of one home, of two homes, of an admin (seeded with
\* an empty list), of an admin who also has a home, one without the homes
\* claim, and one that does not verify although it claims the admin role;
\* a user whose homes are a number and an object, one whose second home has
\* no primitive value, and one whose homes claim is a string
SockTokens ==
    { Token("valid", Str(S_user), Arr(<<Str(S_HOME_01)>>)),
      Token("valid", Str(S_user), Arr(<<Str(S_HOME_01), Str(S_HOME_02)>>)),
      Token("valid", Str(S_admin), Arr(<<>>)),
      Token("valid", Str(S_admin), Arr(<<Str(S_HOME_02)>>)),
      Token("valid", Str(S_user), Undef),
      Token("forged", Str(S_admin), Arr(<<Str(S_HOME_01)>>)),
      Token("valid", Str(S_user), Arr(<<Num(5), Obj(<<>>)>>)),
      Token("valid", Str(S_user), Arr(<<Str(S_HOME_01), Obj(<<"toString">>), Str(S_HOME_02)>>)),
      Token("valid", Str(S_user), Str(S_HOME_01)) }

Handshakes ==
    { Handshake(t, "", NoToken) : t \in SockTokens \cup {NoToken} }
    \cup { Handshake(NoToken, "Bearer", Token("valid", Str(S_user), Arr(<<Str(S_HOME_02)>>))),
           Handshake(NoToken, "Basic", Token("valid", Str(S_admin), Arr(<<>>))),
           Handshake(Token("forged", Str(S_user), Arr(<<Str(S_HOME_01)>>)), "Bearer",
                     Token("valid", Str(S_admin), Arr(<<>>))) }

\* the objects handed to the emitters: a saved reading, a document whose
\* homeId has no text, an alert record built by the router, relayed alerts
\* whose homeId is the text of a number and is absent, a command, and a
\* command whose homeId is an object
SockCalls ==
    { Call("emitTelemetry", [NoMsg EXCEPT !.homeId = Str(S_HOME_01), !.stream = Str(S_AIR)],
           NoRaw, <<>>),
      Call("emitTelemetry", [NoMsg EXCEPT !.homeId = Obj(<<"toString">>), !.stream = Str(S_AIR)],
           NoRaw, <<>>),
      Call("emitAlert", [NoMsg EXCEPT !.homeId = Str(S_HOME_02)], NoRaw,
           << Item("CO", "danger", 36, CO_LIMIT) >>),
      Call("emitAlert", NoMsg, JObject(Own([homeId |-> Str(<<"5">>), ts |-> Str(S_TS)])), <<>>),
      Call("emitAlert", NoMsg, JObject(Own([homeId |-> Undef, ts |-> Str(S_TS)])), <<>>),
      CommandCall([NoPayload EXCEPT !.homeId = Str(S_HOME_02), !.command = [fanOn |-> Bool(TRUE)]]),
      CommandCall([NoPayload EXCEPT !.homeId = Obj(<<"valueOf">>), !.command = [fanOn |-> Bool(TRUE)]]) }

\* a client opens a connection and the io.use middleware runs: it hands next
\* an error, or sets socket.user and calls next(); the socket is in no room;
\* since is the number of emitter calls made before
Middleware ==
    /\ alive /\ io
    /\ Len(sock) + Len(fan) < MaxSockSteps
    /\ \E hs \in Handshakes :
          LET r == ioUse(hs) IN
          sock' = Append(sock, [handshake |-> hs, error |-> r.error, user |-> r.user,
                                connected |-> FALSE, threw |-> FALSE, rooms |-> {},
                                since |-> Len(fan), joined |-> 0, got |-> <<>>])
    /\ UNCHANGED <<client, io, alive, n, h, registry, store, bus, emitted, ev,
                   mqttModule, mqttPublisher, devices, nc, d, ctlBus, stoves, fan, nrm,
                   echoed, sim>>

\* the connection handler runs, later, for a socket the middleware let
\* through (never for a client that went away in between); joined is the
\* number of emitter calls made before.  An error the handler raises is an
\* uncaught exception, on which the process exits (old/server.js).
Connection ==
    \E c \in 1..Len(sock) :
        /\ alive
        /\ sock[c].error = "" /\ ~sock[c].connected
        /\ sock' = [sock EXCEPT ![c].connected = TRUE,
                                ![c].threw = onConnectionThrows(sock[c].user),
                                ![c].rooms = onConnection(sock[c].user),
                                ![c].joined = Len(fan)]
        /\ alive' = ~onConnectionThrows(sock[c].user)
        /\ UNCHANGED <<client, io, n, h, registry, store, bus, emitted, ev,
                       mqttModule, mqttPublisher, devices, nc, d, ctlBus, stoves, fan, nrm,
                       echoed, sim>>

\* one of the emitters is called; the connected sockets of the rooms receive
SockEmit ==
    /\ alive
    /\ Len(sock) + Len(fan) < MaxSockSteps
    /\ \E call \in SockCalls :
          LET mid   == Len(fan) + 1
              emits == CASE call.op = "emitTelemetry" -> emitTelemetry(io, mid, call)
                         [] call.op = "emitAlert"     -> emitAlert(io, mid, call)
                         [] call.op = "emitCommand"   -> emitCommand(io, mid, call) IN
          /\ fan' = Append(fan, [call |-> call, ioReady |-> io,
                                 threw |-> emitThrows(io, call)])
          /\ emitted' = emitted \o emits
          /\ sock' = [c \in DOMAIN sock |->
                         [sock[c] EXCEPT !.got = @ \o Received(sock[c].rooms, emits)]]
    /\ UNCHANGED <<client, io, alive, n, h, registry, store, bus, ev,
                   mqttModule, mqttPublisher, devices, nc, d, ctlBus, stoves, nrm,
                   echoed, sim>>

NextSock == SocketsInit \/ Middleware \/ Connection \/ SockEmit

SpecSock == InitFan /\ [][NextSock]_vars

\* ------------------------------------------------------------- properties
Delivered(i)  == h[i].pc # "none"
StoreHas(i)   == \E k \in 1..Len(store) : store[k].mid = i
BusHas(i)     == \E k \in 1..Len(bus) : bus[k].mid = i
EmittedHas(i) == \E k \in 1..Len(emitted) : emitted[k].mid = i
Ops(i)        == [k \in 1..Len(h[i].calls) |-> h[i].calls[k].op]
NoEffects(i)  == h[i].calls = <<>> /\ ~StoreHas(i) /\ ~BusHas(i) /\ ~EmittedHas(i)
DeviceOf(msg) == [homeId |-> msg.homeId, deviceId |-> msg.deviceId, stream |-> msg.stream]

\* C1: a message whose bytes are not valid JSON makes the handler return
\* normally without a registry upsert, a store append, a fan-out emit or a
\* bus publish, on every subscribed topic.
C1_MalformedJsonIsolated ==
    \A i \in Mids :
        (Delivered(i) /\ ~h[i].buf.json) => (h[i].pc = "returned" /\ NoEffects(i))

C1_Witness ==
    /\ h[1].pc = "returned" /\ ~h[1].buf.json /\ h[1].topic = T_ALERTS
    /\ h[2].pc = "returned" /\ ~h[2].buf.json /\ h[2].topic = T_AIRDATA

\* C2 (as claimed): every message whose bytes parse as JSON, null included,
\* is handled without a rejected promise, so the process stays up.
C2_EveryJsonMessageHandled ==
    \A i \in Mids :
        (Delivered(i) /\ h[i].buf.json) => (h[i].pc # "rejected" /\ alive)

\* C3: a telemetry message whose normalized form lacks homeId, deviceId or a
\* stream is dropped: no upsert, no append, no fan-out, no publish.  The
\* handler returns at the guard that found the gap (the identifiers first),
\* unless the log line before the guards raised the TypeError of an
\* identifier that has no primitive value; a message normalizeMessage itself
\* throws on has no normalized form and has no effect either.
C3_UnresolvedDropped ==
    \A i \in Mids :
        (Delivered(i) /\ h[i].buf.json /\ h[i].topic # T_ALERTS) =>
            /\ normalizeThrows(h[i].buf.value) => (h[i].pc = "rejected" /\ NoEffects(i))
            /\ (/\ ~normalizeThrows(h[i].buf.value)
                /\ \/ ~Truthy(normalizeMessage(h[i].topic, h[i].buf.value).homeId)
                   \/ ~Truthy(normalizeMessage(h[i].topic, h[i].buf.value).deviceId)
                   \/ ~Truthy(normalizeMessage(h[i].topic, h[i].buf.value).stream)) =>
                  /\ NoEffects(i)
                  /\ h[i].calls = <<>>
                  /\ h[i].pc \in {"returned", "rejected"}
                  /\ h[i].pc = "rejected" <=>
                        \E k \in {"homeId", "deviceId"} :
                            ToStringThrows(normalizeMessage(h[i].topic, h[i].buf.value)[k])
                  /\ h[i].pc = "returned" =>
                        h[i].why = IF \/ ~Truthy(h[i].msg.homeId)
                                      \/ ~Truthy(h[i].msg.deviceId)
                                   THEN "missingId" ELSE "noStream"

\* a message with a stream and no device identifier and one with both
\* identifiers and no stream were dropped at the guards
C3_Witness ==
    /\ h[1].why = "missingId" /\ ~Truthy(h[1].msg.deviceId) /\ Truthy(h[1].msg.stream)
    /\ h[1].pc = "returned" /\ NoEffects(1)
    /\ h[2].why = "noStream" /\ h[2].pc = "returned" /\ NoEffects(2)
    /\ Truthy(h[2].msg.homeId) /\ Truthy(h[2].msg.deviceId)

\* {"homeId":{"toString":1}} on the air topic: the normalized form has no
\* deviceId, the log line raised the TypeError, and nothing was called
C3_WitnessLogThrows ==
    /\ h[1].topic = T_AIRDATA /\ h[1].buf.value = RawHomeToString
    /\ ~normalizeThrows(h[1].buf.value)
    /\ ~Truthy(normalizeMessage(h[1].topic, h[1].buf.value).deviceId)
    /\ h[1].pc = "rejected" /\ NoEffects(1)

\* C4: when the store append fails for a message, nothing follows it: no
\* telemetry event, no evaluation, no alert on the bus or the fan-out.
C4_SaveFailureStopsPipeline ==
    \A i \in Mids :
        h[i].failed = "save" =>
            /\ h[i].pc = "returned"
            /\ Ops(i) = <<"upsertFromIngest", "saveTelemetry">>
            /\ ~StoreHas(i) /\ ~BusHas(i) /\ ~EmittedHas(i)

C4_Witness ==
    \E i \in Mids : h[i].failed = "save" /\ alertItems(h[i].msg.payload) # <<>> /\ io

\* C5: when the registry upsert fails for a message, the message is dropped
\* (no append, no fan-out, no publish), the handler's promise is fulfilled,
\* and the process only ever exits on a handler whose promise was rejected,
\* which a failed upsert is not.
C5_UpsertFailureCaught ==
    /\ \A i \in Mids :
        h[i].failed = "upsert" =>
            /\ h[i].pc = "returned"
            /\ Ops(i) = <<"upsertFromIngest">>
            /\ ~StoreHas(i) /\ ~BusHas(i) /\ ~EmittedHas(i)
    /\ ~alive => \E j \in Mids : h[j].pc = "rejected" /\ h[j].failed = ""

\* the message after a failed upsert is processed to the end
C5_Witness ==
    /\ h[1].failed = "upsert" /\ h[2].why = "done" /\ StoreHas(2) /\ alive

\* C6: for a telemetry message the calls happen in the order upsert, save,
\* emitTelemetry, publish, emitAlert; save is called only once the device is
\* in the registry; and a fan-out event or a published alert of a message
\* exists only if its reading is in the store.
C6_PipelineOrder ==
    \A i \in Mids :
        (Delivered(i) /\ h[i].topic # T_ALERTS) =>
            /\ Ops(i) \in { <<>>,
                            <<"upsertFromIngest">>,
                            <<"upsertFromIngest", "saveTelemetry">>,
                            <<"upsertFromIngest", "saveTelemetry", "emitTelemetry">>,
                            <<"upsertFromIngest", "saveTelemetry", "emitTelemetry",
                              "publish", "emitAlert">> }
            /\ Len(h[i].calls) >= 2 => DeviceOf(h[i].msg) \in registry
            /\ (Len(h[i].calls) >= 3 \/ BusHas(i) \/ EmittedHas(i)) => StoreHas(i)

C6_Witness ==
    \E i \in Mids : Len(h[i].calls) = 5 /\ BusHas(i) /\ EmittedHas(i) /\ StoreHas(i)

\* C7 (as claimed): every JSON message on the alerts channel is handed to
\* emitAlert unchanged, and nothing else is called for it.
C7_AlertsChannelRelayed ==
    \A i \in Mids :
        (Delivered(i) /\ h[i].buf.json /\ h[i].topic = T_ALERTS) =>
            /\ h[i].pc = "returned"
            /\ h[i].calls = << Call("emitAlert", NoMsg, h[i].buf.value, <<>>) >>
            /\ ~StoreHas(i) /\ ~BusHas(i)

\* The warn thresholds of the specification's table that the alerting path
\* does not use (the simulator's THRESH.CO_PPM.warn and THRESH.STOVE_C.warn).
CO_WARN    == 15
STOVE_WARN == 180

\* the items of the record published for the evaluated reading
PublishedItems == IF bus = <<>> THEN <<>> ELSE bus[1].alerts
LevelsOf(items, type) ==
    LET idx == {k \in 1..Len(items) : items[k].type = type} IN
    {items[k].level : k \in idx}
CountOf(items, type) == Cardinality({k \in 1..Len(items) : items[k].type = type})

\* the level the claim gives a two-tier metric
TierOf(v, warn, danger) ==
    IF v.t # "number" THEN {}
    ELSE IF v.n >= danger THEN {"danger"}
    ELSE IF v.n >= warn THEN {"warn"}
    ELSE {}

\* C8 (as claimed): CO2 and PM2.5 yield danger at or above the danger
\* threshold, warn at or above the warn threshold, nothing below or absent.
C8_TwoTierAtOrAbove ==
    ev.pc = "done" =>
        /\ LevelsOf(PublishedItems, "CO2") = TierOf(ev.msg.payload["co2"], CO2_LIMIT, CO2_DANGER)
        /\ LevelsOf(PublishedItems, "PM2_5") = TierOf(ev.msg.payload["pm25"], PM25_LIMIT, PM25_DANGER)

\* C9 (as claimed): CO and stove temperature yield a danger item exactly
\* when the value is at or above 35 / 250, and never a warn item.
C9_DangerOnlyAtOrAbove ==
    ev.pc = "done" =>
        /\ LevelsOf(PublishedItems, "CO") = TierOf(ev.msg.payload["co"], CO_LIMIT, CO_LIMIT)
        /\ LevelsOf(PublishedItems, "STOVE_TEMP") =
               TierOf(ev.msg.payload["stove_temp_c"], STOVE_LIMIT, STOVE_LIMIT)
        /\ (/\ ev.msg.payload["co"].t = "number"
            /\ ev.msg.payload["co"].n >= CO_WARN
            /\ ev.msg.payload["co"].n < CO_LIMIT) => CountOf(PublishedItems, "CO") = 0
        /\ (/\ ev.msg.payload["stove_temp_c"].t = "number"
            /\ ev.msg.payload["stove_temp_c"].n >= STOVE_WARN
            /\ ev.msg.payload["stove_temp_c"].n < STOVE_LIMIT) => CountOf(PublishedItems, "STOVE_TEMP") = 0

\* C10: one evaluation yields at most one item per metric, and a reading
\* that yields no item publishes no record on the bus and pushes none to the
\* fan-out; no published or pushed record has an empty item list.
C10_OneItemPerMetricNoEmptyRecord ==
    ev.pc = "done" =>
        /\ \A type \in {"CO2", "CO", "PM2_5", "STOVE_TEMP"} :
              /\ CountOf(alertItems(ev.msg.payload), type) <= 1
              /\ CountOf(PublishedItems, type) <= 1
        /\ alertItems(ev.msg.payload) = <<>> => (bus = <<>> /\ emitted = <<>>)
        /\ \A k \in 1..Len(bus) : bus[k].alerts # <<>>
        /\ \A k \in 1..Len(emitted) : emitted[k].call.items # <<>>
        /\ Len(bus) <= 1

\* a reading with every metric present and below its limit: nothing goes out
C10_Witness ==
    /\ ev.pc = "done" /\ bus = <<>> /\ emitted = <<>> /\ io
    /\ \A k \in {"co2", "co", "pm25", "stove_temp_c"} : ev.msg.payload[k].t = "number"


\* the place of a metric in the fixed priority CO2, CO, PM2_5, STOVE_TEMP
RankOf(type) ==
    CASE type = "CO2" -> 1 [] type = "CO" -> 2 [] type = "PM2_5" -> 3 [] type = "STOVE_TEMP" -> 4

InPriorityOrder(items) ==
    \A j, k \in 1..Len(items) : j < k => RankOf(items[j].type) < RankOf(items[k].type)

\* C11: the items of a published record appear in the order CO2, CO, PM2_5,
\* STOVE_TEMP, restricted to the metrics that breached.
C11_ItemsInPriorityOrder ==
    ev.pc = "done" =>
        /\ InPriorityOrder(PublishedItems)
        /\ \A k \in 1..Len(emitted) : InPriorityOrder(emitted[k].call.items)

\* all four metrics breached and the record went out
C11_Witness ==
    /\ ev.pc = "done" /\ Len(PublishedItems) = 4 /\ Len(emitted) = 2

\* the alert events of message i emitted to the socket rooms
AlertEmitsOf(i) ==
    SelectSeq(emitted, LAMBDA e : e.mid = i /\ e.event = "alert")
BusOf(i) == SelectSeq(bus, LAMBDA b : b.mid = i)

\* the record maybePublishAlerts builds for handler i (without its own ts)
AlertRecordOf(i, items) ==
    [topic |-> T_ALERTS, mid |-> i, homeId |-> h[i].msg.homeId,
     deviceId |-> h[i].msg.deviceId, stream |-> h[i].msg.stream, alerts |-> items]

\* the same record as it is written on the bus: a homeId that is a number
\* and not finite is written as null
WrittenRecordOf(i, items) ==
    [AlertRecordOf(i, items) EXCEPT
        !.homeId = IF h[i].msg.homeId \in {Infinity, NegInfinity} THEN Null ELSE @]

\* the breaches of the saved reading of handler i, read off the payload
BreachesOf(i) ==
    LET p == h[i].msg.payload
        two(x, danger) == IF x > danger THEN "danger" ELSE "warn"
        one(key, type, limit, level) ==
            IF p[key].t = "number" /\ p[key].n > limit
            THEN << Item(type, level, p[key].n, limit) >>
            ELSE <<>>
    IN one("co2", "CO2", CO2_LIMIT, two(p.co2.n, CO2_DANGER))
       \o one("co", "CO", CO_LIMIT, "danger")
       \o one("pm25", "PM2_5", PM25_LIMIT, two(p.pm25.n, PM25_DANGER))
       \o one("stove_temp_c", "STOVE_TEMP", STOVE_LIMIT, "danger")

\* the room of a home whose identifier is the text x
RoomOfText(x) == <<"h","o","m","e",":">> \o x

\* the text of the home of a reading that went through: the identifier
\* itself, the digits of a number, [object Object] for an object
HomeText(v) ==
    CASE v.t = "string" -> v.s
      [] v.t = "object" -> <<"[","o","b","j","e","c","t"," ","O","b","j","e","c","t","]">>
      [] v = Infinity   -> <<"I","n","f","i","n","i","t","y">>
      [] OTHER          -> String(v)

\* the two pushes of the alert record of handler i
AlertPushesOf(i) ==
    << Emission(RoomOfText(HomeText(h[i].msg.homeId)), "alert", i,
                Call("emitAlert", h[i].msg, NoRaw, BreachesOf(i))),
       Emission(S_admin, "alert", i, Call("emitAlert", h[i].msg, NoRaw, BreachesOf(i))) >>

\* every persisted reading with a breach has exactly one record on the bus,
\* with its identifiers as JSON writes them, its stream and exactly its
\* items; the home 1e999 is written as null
C12_PublishedOnce ==
    \A i \in Mids :
        (h[i].why = "done" /\ BreachesOf(i) # <<>>) =>
            /\ StoreHas(i)
            /\ BusOf(i) = << WrittenRecordOf(i, BreachesOf(i)) >>
            /\ (h[i].buf.value = RawInfiniteHome) =>
                  /\ BusOf(i)[1].homeId = Null
                  /\ BusOf(i)[1].deviceId = Str(S_AIR_001)
                  /\ BusOf(i)[1].alerts = << Item("CO2", "warn", 1200, 1000) >>
            /\ (h[i].topic = T_AIRDATA /\ h[i].buf.value = RawAirAlarm) =>
                  /\ BusOf(i)[1].alerts = << Item("CO2", "danger", 1700, 1000),
                                             Item("PM2_5", "warn", 40, 35) >>
                  /\ BusOf(i)[1].homeId = Str(S_HOME_01)
                  /\ BusOf(i)[1].deviceId = Str(S_AIR_HOME_01)
                  /\ BusOf(i)[1].stream = Str(S_AIR)
                  /\ BusOf(i)[1].topic = T_ALERTS

\* C12 (as claimed): every persisted reading that breaches a limit gets
\* exactly one AlertRecord on shega/alerts and that record is pushed to the
\* room home:<homeId>.
C12_PushedForEveryBreachingReading ==
    \A i \in Mids :
        (h[i].why = "done" /\ BreachesOf(i) # <<>>) =>
            /\ BusOf(i) = << AlertRecordOf(i, BreachesOf(i)) >>
            /\ AlertEmitsOf(i) = AlertPushesOf(i)

\* the record is pushed exactly when the socket server was initialised at
\* the time the reading was saved: once to the room of its home, once to admin
C12_PushedIfInitialised ==
    \A i \in Mids :
        (h[i].why = "done" /\ BreachesOf(i) # <<>>) =>
            /\ AlertEmitsOf(i) \in { <<>>, AlertPushesOf(i) }
            /\ ~io => AlertEmitsOf(i) = <<>>
            /\ (h[i].topic = T_AIRDATA /\ h[i].buf.value = RawAirAlarm /\ AlertEmitsOf(i) # <<>>) =>
                  /\ AlertEmitsOf(i)[1].room = <<"h","o","m","e",":","H","O","M","E","_","0","1">>
                  /\ AlertEmitsOf(i)[1].call.items = << Item("CO2", "danger", 1700, 1000),
                                                       Item("PM2_5", "warn", 40, 35) >>
            /\ (h[i].buf.value = RawObjectIds /\ AlertEmitsOf(i) # <<>>) =>
                  AlertEmitsOf(i)[1].room =
                      <<"h","o","m","e",":","[","o","b","j","e","c","t"," ","O","b","j","e","c","t","]">>
            /\ (h[i].buf.value = RawInfiniteHome /\ AlertEmitsOf(i) # <<>>) =>
                  AlertEmitsOf(i)[1].room = <<"h","o","m","e",":","I","n","f","i","n","i","t","y">>

\* the step that saves a breaching reading pushes its record when io is set,
\* and pushes nothing when it is not
C12_PushedWhenSaved ==
    \A i \in Mids :
        (h[i].pc = "save" /\ h'[i].why = "done" /\ BreachesOf(i) # <<>>) =>
            /\ io => SelectSeq(emitted', LAMBDA e : e.mid = i /\ e.event = "alert")
                         = AlertPushesOf(i)
            /\ ~io => emitted' = emitted

\* the record on the bus carries the homeId of the reading as it was read
C12_PublishedWithHomeAsRead ==
    \A i \in Mids :
        (h[i].why = "done" /\ BreachesOf(i) # <<>>) =>
            BusOf(i) = << AlertRecordOf(i, BreachesOf(i)) >>

\* C12: every persisted reading that breaches a limit gets exactly one
\* AlertRecord with its homeId, deviceId, stream and exactly its items on
\* shega/alerts, the homeId as JSON writes it (null for a number that is not
\* finite); the record is pushed to the room home:<homeId> when the
\* socket server has been initialised by then, and is not pushed otherwise;
\* the message {deviceId AIR_HOME_01, co2 1700, pm25 40} on the air topic
\* gives CO2/danger/1700/1000 then PM2_5/warn/40/35 for home:HOME_01.
C12_OneAlertRecordPerBreachingReading ==
    [](C12_PublishedOnce /\ C12_PushedIfInitialised) /\ [][C12_PushedWhenSaved]_vars

\* the worked example went through with the sockets initialised
C12_Witness ==
    \E i \in Mids :
        /\ h[i].why = "done" /\ h[i].topic = T_AIRDATA /\ h[i].buf.value = RawAirAlarm
        /\ Len(BusOf(i)) = 1 /\ Len(AlertEmitsOf(i)) = 2
        /\ AlertEmitsOf(i)[1].room = <<"h","o","m","e",":">> \o S_HOME_01
        /\ BusOf(i)[1].alerts = << Item("CO2", "danger", 1700, 1000),
                                   Item("PM2_5", "warn", 40, 35) >>

\* the reading of home 1e999 went through with the sockets initialised: its
\* record is on the bus with homeId null and was pushed to home:Infinity
C12_WitnessNullHome ==
    \E i \in Mids :
        /\ h[i].why = "done" /\ h[i].buf.value = RawInfiniteHome
        /\ Len(BusOf(i)) = 1 /\ BusOf(i)[1].homeId = Null
        /\ Len(AlertEmitsOf(i)) = 2
        /\ AlertEmitsOf(i)[1].room = <<"h","o","m","e",":","I","n","f","i","n","i","t","y">>

\* a breaching reading was saved before sockets.init: its record is on the
\* bus and was pushed to no room
C12_WitnessNotPushed ==
    \E i \in Mids :
        /\ h[i].why = "done" /\ BreachesOf(i) # <<>>
        /\ Len(BusOf(i)) = 1 /\ AlertEmitsOf(i) = <<>> /\ ~io


\* the messages on the bus that the c-th sendDeviceControl call published
PublishedBy(c) == SelectSeq(ctlBus, LAMBDA m : m.from = "dispatcher" /\ m.cid = c)

\* findOne of the c-th call has resolved
LookedUp(c) == d[c].pc # "findOne" /\ d[c].error # "findOne failed"
Resolves(deviceId) == \E x \in devices : x.deviceId = deviceId

\* C13: a dispatch for a deviceId the registry does not resolve fails with
\* the not-found error and publishes nothing; every control message the
\* dispatcher put on the bus comes from a call whose lookup found the device
\* with that deviceId.
C13_UnknownDeviceNeverPublished ==
    /\ \A c \in 1..Len(d) :
          (LookedUp(c) /\ ~Resolves(d[c].deviceId)) =>
              /\ d[c].pc = "rejected"
              /\ d[c].error = "Device not found" /\ d[c].status = 404
              /\ ~d[c].handed
              /\ PublishedBy(c) = <<>>
    /\ \A k \in 1..Len(ctlBus) :
          ctlBus[k].from = "dispatcher" =>
              LET c == ctlBus[k].cid IN
              /\ LookedUp(c)
              /\ d[c].device \in devices
              /\ d[c].device.deviceId = d[c].deviceId
              /\ Prop(ctlBus[k].text.top, "deviceId") = d[c].deviceId

\* one call for the unknown STOVE_HOME_03 was refused while another call's
\* message is on the bus
C13_Witness ==
    /\ \E c \in 1..Len(d) :
          d[c].deviceId = Str(S_STOVE_HOME_03) /\ d[c].error = "Device not found"
    /\ \E k \in 1..Len(ctlBus) : ctlBus[k].from = "dispatcher"

T_STOVE_CONTROL ==
    <<"s","h","e","g","a","/","s","t","o","v","e","n","o","d","e","/","c","o","n","t","r","o","l">>

T_AIR_CONTROL ==
    <<"s","h","e","g","a","/","a","i","r","n","o","d","e","/","c","o","n","t","r","o","l">>

\* the control topic the specification gives a registry type
TopicOfType(type) ==
    CASE type = Str(S_STOVENODE) -> T_STOVE_CONTROL
      [] type = Str(S_AIRNODE)   -> T_AIR_CONTROL

\* what a returned dispatch returns is built from the registry's document:
\* the topic of its type, its deviceId and homeId, the command as given
ReturnedFromRegistry(c) ==
    \E x \in devices :
        /\ x.deviceId = d[c].deviceId
        /\ d[c].topic = TopicOfType(x.type)
        /\ d[c].payload.deviceId = x.deviceId
        /\ d[c].payload.homeId = x.homeId
        /\ d[c].payload.command = d[c].command

\* message m is what call c returned
AsReturned(c, m) ==
    /\ m.topic = d[c].topic
    /\ Prop(m.text.top, "deviceId") = d[c].payload.deviceId
    /\ Prop(m.text.top, "homeId") = d[c].payload.homeId
    /\ Prop(m.text.top, "ts") = d[c].payload.ts
    /\ m.text.hasCommand /\ m.text.command = d[c].command

\* message m is what call c returned, as JSON writes it: {fanOn: 1e999} is
\* written as {"fanOn":null}
AsWritten(c, m) ==
    /\ m.topic = d[c].topic
    /\ Prop(m.text.top, "deviceId") = d[c].payload.deviceId
    /\ Prop(m.text.top, "homeId") = d[c].payload.homeId
    /\ Prop(m.text.top, "ts") = d[c].payload.ts
    /\ m.text.hasCommand
    /\ m.text.command = IF d[c].command = [fanOn |-> Infinity]
                        THEN [fanOn |-> Null] ELSE d[c].command

\* C14 (as claimed): a dispatch that returned success, once the transport
\* has dealt with its message, has exactly one message on the bus, on
\* shega/<lower-cased type>/control (STOVENODE gives shega/stovenode/control);
\* the payload holds the registry's deviceId and homeId of the device and the
\* command as given, and the returned topic and payload are the published
\* ones.
C14_SuccessfulDispatchPublishesOnce ==
    \A c \in 1..Len(d) :
        (d[c].pc = "returned" /\ d[c].sent) =>
            /\ Len(PublishedBy(c)) = 1
            /\ ReturnedFromRegistry(c)
            /\ AsReturned(c, PublishedBy(c)[1])

\* what holds of every dispatch: it is handed to the transport exactly when
\* it gets past the publisher, never has more than one message on the bus,
\* and a message on the bus is the one returned, as JSON writes it
C14_AtMostOnceAsReturned ==
    \A c \in 1..Len(d) :
        /\ Len(PublishedBy(c)) = IF d[c].handed /\ d[c].sent /\ d[c].accepted THEN 1 ELSE 0
        /\ d[c].pc \in {"publish", "returned"} => (d[c].handed /\ ReturnedFromRegistry(c))
        /\ \A k \in 1..Len(PublishedBy(c)) : AsWritten(c, PublishedBy(c)[k])

\* dispatch("STOVE_HOME_02", {fanOn: true}) returned and its message is on
\* the bus
C14_WitnessPublished ==
    \E c \in 1..Len(d) :
        /\ d[c].pc = "returned" /\ d[c].deviceId = Str(S_STOVE_HOME_02)
        /\ d[c].command = [fanOn |-> Bool(TRUE)]
        /\ Len(PublishedBy(c)) = 1
        /\ PublishedBy(c)[1].topic = T_STOVE_CONTROL
        /\ Prop(PublishedBy(c)[1].text.top, "homeId") = Str(S_HOME_02)

\* the command {fanOn: 1e999} was dispatched and is on the bus as
\* {"fanOn":null}
C14_WitnessNullCommand ==
    \E c \in 1..Len(d) :
        /\ d[c].pc = "returned" /\ d[c].command = [fanOn |-> Infinity]
        /\ Len(PublishedBy(c)) = 1
        /\ PublishedBy(c)[1].text.command = [fanOn |-> Null]

\* C15: a dispatch returns a success result only if the transport accepted
\* its publish; with the publisher module missing, the client not started or
\* the transport refusing the message, the call fails.
C15_TransportFailureSurfaced ==
    \A c \in 1..Len(d) :
        /\ d[c].pc = "returned" => (mqttModule = "publisher" /\ client /\ (d[c].sent => d[c].accepted))
        /\ (LookedUp(c) /\ Resolves(d[c].deviceId) /\ d[c].sent /\ ~d[c].accepted) =>
               d[c].pc = "rejected"

\* C16: delivering a dispatcher message carrying {fanOn: b} for stove D sets
\* fanOn = b on the simulated stove D and leaves every other stove as it is.
C16_SharedTopicFilteredByDeviceId ==
    \A k \in 1..Len(ctlBus) :
        LET m  == ctlBus[k]
            id == Prop(m.text.top, "deviceId")
            b  == Prop(m.text.command, "fanOn") IN
        (m.from = "dispatcher" /\ id.t = "string" /\ id.s \in DOMAIN stoves /\ b.t = "boolean") =>
            /\ topicMatches(SimFilter, m.topic)
            /\ LET after == onControl(stoves, m.topic, m.text) IN
               /\ after[id.s].fanOn = (b.n = 1)
               /\ \A o \in DOMAIN stoves \ {id.s} : after[o] = stoves[o]


\* the emissions of the j-th emitter call
EmitsOf(j) == SelectSeq(emitted, LAMBDA e : e.mid = j)

\* the event name of each emitter
EventOf(op) ==
    CASE op = "emitTelemetry" -> "telemetry"
      [] op = "emitAlert"     -> "alert"
      [] op = "emitCommand"   -> "command"

\* the room name the specification gives each homeId handed to the emitters,
\* for those a room name can be made of
RoomOfHome(x) ==
    CASE x = Str(S_HOME_01) -> <<"h","o","m","e",":","H","O","M","E","_","0","1">>
      [] x = Str(S_HOME_02) -> <<"h","o","m","e",":","H","O","M","E","_","0","2">>
      [] x = Str(S_HOME123) -> <<"h","o","m","e",":","H","O","M","E","1","2","3">>
      [] x = Undef          -> <<"h","o","m","e",":","u","n","d","e","f","i","n","e","d">>
      [] x = Num(5)         -> <<"h","o","m","e",":","5">>
      [] x = Obj(<<>>)      ->
             <<"h","o","m","e",":","[","o","b","j","e","c","t"," ","O","b","j","e","c","t","]">>

\* the homeIds no text can be made of: the template of the room name raises
\* a TypeError for them
NoRoomHomes == {Obj(<<"toString">>), Arr(<<Str(S_HOME_01), Obj(<<"toString">>)>>)}

\* the call emitAlert(null): there is no object to read a homeId from
NullAlert == Call("emitAlert", NoMsg, JNull, <<>>)

\* a room name can be made for the object the call carries
HasRoom(call) == call # NullAlert /\ HomeIdOf(call) \notin NoRoomHomes

\* C17: every telemetry, alert or command event goes to exactly two rooms,
\* first home:<homeId> of the emitted object's own homeId, then admin, and to
\* the room of no other home.  An emitter call emits its event to both rooms
\* or, before sockets.init and for an object no room name can be made of
\* (null, or a homeId without a text), to none (it then raises the
\* TypeError, if io is set).
C17_EventsScopedToHomeAndAdmin ==
    /\ \A k \in 1..Len(emitted) :
          /\ emitted[k].mid \in 1..Len(fan)
          /\ Len(EmitsOf(emitted[k].mid)) = 2
          /\ emitted[k].call # NullAlert
          /\ \/ emitted[k].room = S_admin
             \/ emitted[k].room = RoomOfHome(HomeIdOf(emitted[k].call))
          /\ \A x \in FanHomeIds \ NoRoomHomes :
                x # HomeIdOf(emitted[k].call) => emitted[k].room # RoomOfHome(x)
    /\ \A j \in 1..Len(fan) :
          /\ fan[j].threw <=> (fan[j].ioReady /\ ~HasRoom(fan[j].call))
          /\ IF fan[j].ioReady /\ HasRoom(fan[j].call)
             THEN EmitsOf(j) =
                      << Emission(RoomOfHome(HomeIdOf(fan[j].call)), EventOf(fan[j].call.op),
                                  j, fan[j].call),
                         Emission(S_admin, EventOf(fan[j].call.op), j, fan[j].call) >>
             ELSE EmitsOf(j) = <<>>

\* a command for HOME_02 and an alert for HOME_01 were both emitted, each to
\* the room of its home and to admin
C17_Witness ==
    \E j, k \in 1..Len(fan) :
        /\ fan[j].call.op = "emitCommand" /\ HomeIdOf(fan[j].call) = Str(S_HOME_02)
        /\ fan[k].call.op = "emitAlert" /\ fan[k].call # NullAlert
        /\ HomeIdOf(fan[k].call) = Str(S_HOME_01)
        /\ Len(emitted) = 4
        /\ EmitsOf(j)[1].room = <<"h","o","m","e",":","H","O","M","E","_","0","2">>
        /\ EmitsOf(k)[1].room = <<"h","o","m","e",":","H","O","M","E","_","0","1">>
        /\ EmitsOf(j)[2].room = S_admin /\ EmitsOf(k)[2].room = S_admin

\* emitTelemetry for a homeId that is an object with its own toString raised
\* the TypeError and emitted nothing, not to admin either; an alert without a
\* homeId went to home:undefined and admin
C17_WitnessThrows ==
    \E j, k \in 1..Len(fan) :
        /\ fan[j].call.op = "emitTelemetry" /\ HomeIdOf(fan[j].call) = Obj(<<"toString">>)
        /\ fan[j].ioReady /\ fan[j].threw /\ EmitsOf(j) = <<>>
        /\ fan[k].call.op = "emitAlert" /\ fan[k].call # NullAlert
        /\ HomeIdOf(fan[k].call) = Undef
        /\ Len(EmitsOf(k)) = 2
        /\ EmitsOf(k)[1].room = <<"h","o","m","e",":","u","n","d","e","f","i","n","e","d">>

\* emitAlert(null) returned silently before sockets.init and, called again
\* with io set, raised the TypeError; neither call emitted anything
C17_WitnessNull ==
    /\ Len(fan) = 2
    /\ fan[1].call = NullAlert /\ ~fan[1].ioReady /\ ~fan[1].threw
    /\ fan[2].call = NullAlert /\ fan[2].ioReady /\ fan[2].threw
    /\ emitted = <<>>


\* a finite number: a JSON number other than the infinities of an
\* overflowing literal
Finite(v) == v.t = "number" /\ v \notin {Infinity, NegInfinity}

\* the object the measurements are read from: `payload` when it is an object
\* or an array (an array holds none of the names), the message otherwise
MeasurementSource(raw) ==
    CASE raw.pkind = "object" -> raw.pay
      [] raw.pkind = "array"  -> NoProps
      [] OTHER                -> raw.top

\* raw carries a finite number under one of the names
HasNumber(raw, names) == \E k \in names : Finite(Prop(MeasurementSource(raw), k))
StoveNames == {"stove_temp_c", "stove_temp"}
AirNames   == {"co2", "co2_ppm", "co", "co_ppm", "pm25", "pm25_ugm3", "pm2_5", "pm2_5_ugm3",
               "pm10", "pm10_ugm3"}
PersistCalls == SelectSeq(h[1].calls, LAMBDA c : c.op \in {"upsertFromIngest", "saveTelemetry"})

\* C18: a telemetry message with no explicit stream, no stove temperature
\* and none of co2/co/pm25/pm10 gets no stream and is dropped with no call of
\* the registry or the store, on every subscribed telemetry topic.
C18_NoMeasurementDropped ==
    (/\ nrm.pc = "handled"
     /\ Get(nrm.raw, "stream") = Undef
     /\ ~HasNumber(nrm.raw, StoveNames) /\ ~HasNumber(nrm.raw, AirNames)) =>
        /\ nrm.msg.stream = Undef
        /\ nrm.why = "noStream" \/ nrm.why = "missingId"
        /\ PersistCalls = <<>>

\* C19: every reading handed to upsertFromIngest or saveTelemetry has stream
\* AIR or STOVE.
C19_PersistedStreamIsAirOrStove ==
    nrm.pc = "handled" =>
        \A k \in 1..Len(PersistCalls) :
            PersistCalls[k].msg.stream \in {Str(<<"A","I","R">>), Str(<<"S","T","O","V","E">>)}

\* the stream an explicit field gives, for the values of StreamFields that
\* have a text: the upper-cased text of the value
UpperCased(v) ==
    CASE v = Str(S_air)     -> <<"A","I","R">>
      [] v = Str(S_STOVE)   -> <<"S","T","O","V","E">>
      [] v = Str(S_foo)     -> <<"F","O","O">>
      [] v = Str(<<>>)      -> <<>>
      [] v = Str(<<"s","t","r","a","U+00DF">>) -> <<"S","T","R","A","S","S">>
      [] v = Num(5)         -> <<"5">>
      [] v = Num(0)         -> <<"0">>
      [] v = Bool(TRUE)     -> <<"T","R","U","E">>
      [] v = Bool(FALSE)    -> <<"F","A","L","S","E">>
      [] v = Null           -> <<"N","U","L","L">>
      [] v = Infinity       -> <<"I","N","F","I","N","I","T","Y">>
      [] v = Obj(<<>>)      -> <<"[","O","B","J","E","C","T"," ","O","B","J","E","C","T","]">>
      [] v = Arr(<<>>)      -> <<>>
      [] v = Arr(<<Str(S_air)>>) -> <<"A","I","R">>

\* the values of `stream` that have no text: normalizeMessage raises the
\* TypeError of String(raw.stream) for them
NoTextStreams == {Obj(<<"toString">>), Arr(<<Null, Obj(<<"toString">>)>>)}

\* the stream by strict priority: explicit field, topic hint, stove
\* temperature, air measurement; explicit says whether raw has an explicit
\* stream, airTopic and stoveTopic whether the topic gives the hint
StreamByPriority(raw, explicit, airTopic, stoveTopic) ==
    IF explicit THEN Str(UpperCased(Get(raw, "stream")))
    ELSE IF airTopic THEN Str(<<"A","I","R">>)
    ELSE IF stoveTopic THEN Str(<<"S","T","O","V","E">>)
    ELSE IF HasNumber(raw, StoveNames) THEN Str(<<"S","T","O","V","E">>)
    ELSE IF HasNumber(raw, AirNames) THEN Str(<<"A","I","R">>)
    ELSE Undef

\* normalizeMessage returned for the message of nrm
NormReturned == nrm.pc = "handled" /\ Get(nrm.raw, "stream") \notin NoTextStreams

\* an explicit stream as claimed: the message has the field, with a value
HasStreamField == Get(nrm.raw, "stream") \notin {Undef, Null}

\* an explicit stream as the code takes it: a truthy value whose text is not
\* empty
HasStreamText ==
    /\ Get(nrm.raw, "stream") \notin
           {Undef, Null, Str(<<>>), Num(0), Bool(FALSE)}
    /\ UpperCased(Get(nrm.raw, "stream")) # <<>>

\* the topic hint as claimed: the topic contains the word, in any case
ContainsWord(word) == includes(toLowerCase(nrm.topic), word)

\* the topic hint as the code takes it: the word is a whole level of the
\* topic, in any case
HasLevel(word) ==
    \E k \in 2..(Len(split(nrm.topic)) - 1) : toLowerCase(split(nrm.topic)[k]) = word

\* C20 (as claimed): the stream follows the strict priority explicit field
\* (upper-cased), then a topic containing airnode (AIR) or stovenode (STOVE),
\* then a finite stove temperature (STOVE), then a finite co2/co/pm25/pm10
\* (AIR), else unresolved.
C20_StreamPriority ==
    NormReturned =>
        nrm.msg.stream =
            StreamByPriority(nrm.raw, HasStreamField,
                             ContainsWord(<<"a","i","r","n","o","d","e">>),
                             ContainsWord(<<"s","t","o","v","e","n","o","d","e">>))

\* the claim with the topic hint alone amended: violated by a `stream` that
\* is "", 0, false or []
C20_TopicLevelOnly ==
    NormReturned =>
        nrm.msg.stream =
            StreamByPriority(nrm.raw, HasStreamField,
                             HasLevel(<<"a","i","r","n","o","d","e">>),
                             HasLevel(<<"s","t","o","v","e","n","o","d","e">>))

\* the claim with the explicit field alone amended: violated on the topic
\* shega/airnode2/data
C20_StreamTextOnly ==
    NormReturned =>
        nrm.msg.stream =
            StreamByPriority(nrm.raw, HasStreamText,
                             ContainsWord(<<"a","i","r","n","o","d","e">>),
                             ContainsWord(<<"s","t","o","v","e","n","o","d","e">>))

\* C20: the stream follows the strict priority explicit field, being a
\* truthy value whose text is not empty (the text upper-cased), then a topic
\* with the level /airnode/ (AIR) or /stovenode/ (STOVE) in any case, then a
\* finite stove temperature (STOVE), then a finite co2/co/pm25/pm10 (AIR),
\* else unresolved; a later rule never overrides an earlier one.
C20_StreamPriorityByTopicLevel ==
    NormReturned =>
        nrm.msg.stream =
            StreamByPriority(nrm.raw, HasStreamText,
                             HasLevel(<<"a","i","r","n","o","d","e">>),
                             HasLevel(<<"s","t","o","v","e","n","o","d","e">>))

\* an explicit stream `air` on the stove topic with a stove temperature: AIR
C20_Witness ==
    /\ nrm.pc = "handled" /\ nrm.topic = T_STOVE
    /\ Get(nrm.raw, "stream") = Str(S_air) /\ HasNumber(nrm.raw, StoveNames)
    /\ nrm.msg.stream = Str(S_AIR)

\* the number 5 as stream on the air topic gives the stream 5
C20_WitnessNumber ==
    /\ nrm.pc = "handled" /\ nrm.topic = T_AIRDATA
    /\ Get(nrm.raw, "stream") = Num(5) /\ nrm.msg.stream = Str(<<"5">>)

\* an empty array as stream on shega/AirNode/data leaves the stream to the
\* topic
C20_WitnessEmptyText ==
    /\ nrm.pc = "handled" /\ nrm.topic = T_AirNode
    /\ Get(nrm.raw, "stream") = Arr(<<>>) /\ HasNumber(nrm.raw, StoveNames)
    /\ nrm.msg.stream = Str(S_AIR)

\* on shega/airnode2/data an infinite stove temperature and a co2 of 700
\* give AIR
C20_WitnessContent ==
    /\ nrm.pc = "handled" /\ nrm.topic = T_AIRNODE2
    /\ Get(nrm.raw, "stream") = Undef
    /\ Get(nrm.raw, "stove_temp_c") = Infinity /\ Get(nrm.raw, "co2") = Num(700)
    /\ nrm.msg.stream = Str(S_AIR)


\* the device identifier of raw under either accepted name
DeviceIdentifier(raw) ==
    IF Truthy(Get(raw, "deviceId")) THEN Get(raw, "deviceId") ELSE Get(raw, "device")
\* the first home alias of raw that is given
HomeAlias(raw) ==
    IF Truthy(Get(raw, "homeId")) THEN Get(raw, "homeId")
    ELSE IF Truthy(Get(raw, "home")) THEN Get(raw, "home")
    ELSE Get(raw, "h")
\* the first HOME_<2 digits> inside s, if any
HomeInside(s) ==
    LET at == {i \in 1..Len(s) : /\ i + 6 <= Len(s)
                                  /\ SubSeq(s, i, i + 4) = <<"H","O","M","E","_">>
                                  /\ s[i + 5] \in {"0","1","2","3","4","5","6","7","8","9"}
                                  /\ s[i + 6] \in {"0","1","2","3","4","5","6","7","8","9"}} IN
    IF at = {} THEN <<>>
    ELSE LET i == CHOOSE j \in at : \A k \in at : j <= k IN SubSeq(s, i, i + 6)

\* C21: with no home under homeId, home or h, a device identifier carried as
\* deviceId or as device that contains HOME_<2 digits> gives that substring
\* as homeId (STOVE_HOME_07 gives HOME_07); a home given under an alias wins.
C21_HomeInferredFromDevice ==
    nrm.pc = "handled" =>
        LET id == DeviceIdentifier(nrm.raw) IN
        /\ Truthy(HomeAlias(nrm.raw)) => nrm.msg.homeId = HomeAlias(nrm.raw)
        /\ (~Truthy(HomeAlias(nrm.raw)) /\ id.t = "string" /\ HomeInside(id.s) # <<>>) =>
               nrm.msg.homeId = Str(HomeInside(id.s))
        /\ (~Truthy(HomeAlias(nrm.raw)) /\ id = Str(S_STOVE_HOME_07)) =>
               nrm.msg.homeId = Str(<<"H","O","M","E","_","0","7">>)

\* the documented names of each measurement, in order
AliasTable ==
    [co2           |-> <<"co2", "co2_ppm">>,
     co            |-> <<"co", "co_ppm">>,
     pm25          |-> <<"pm25", "pm25_ugm3", "pm2_5", "pm2_5_ugm3">>,
     pm10          |-> <<"pm10", "pm10_ugm3">>,
     temperature_c |-> <<"temperature_c", "temp_c", "temperature">>,
     humidity_pct  |-> <<"humidity_pct", "humidity">>,
     stove_temp_c  |-> <<"stove_temp_c", "stove_temp">>]

\* the object the measurements are read from as claimed: the nested
\* `payload` object when there is one, the message otherwise
SourceAsClaimed(raw) == IF raw.pkind = "object" THEN raw.pay ELSE raw.top

\* the value of the first name of m that holds a finite number in src
FirstNumber(src, m) ==
    LET names == AliasTable[m]
        at    == {i \in 1..Len(names) : Finite(Prop(src, names[i]))} IN
    IF at = {} THEN Undef
    ELSE Prop(src, names[CHOOSE i \in at : \A j \in at : i <= j])

\* every canonical measurement of nrm is the first finite alias in src
FirstAliasOf(src) ==
    /\ \A m \in DOMAIN AliasTable : nrm.msg.payload[m] = FirstNumber(src, m)
    /\ (Finite(Prop(src, "pm25_ugm3")) /\ "pm25" \notin DOMAIN src) =>
           nrm.msg.payload.pm25 = Prop(src, "pm25_ugm3")

\* C22 (as claimed): each canonical measurement is the first of its aliases,
\* in the documented order, that holds a finite number, read from the nested
\* payload object when there is one and from the top level otherwise.
C22_FirstFiniteAliasOfObject ==
    NormReturned => FirstAliasOf(SourceAsClaimed(nrm.raw))

\* C22: each canonical measurement is the first of its aliases, in the
\* documented order, that holds a finite number, read from `payload` when
\* that is an object or an array (an array gives no measurement) and from
\* the top level otherwise; pm25_ugm3 without pm25 gives pm25, and a
\* measurement with no such alias is undefined.
C22_FirstFiniteAlias ==
    NormReturned => FirstAliasOf(MeasurementSource(nrm.raw))

\* a nested payload whose pm25 is infinite and whose pm25_ugm3 is 15, with
\* another pm25 and a co2 at the top level: pm25 is 15 and co2, infinite in
\* the payload, is undefined
C22_Witness ==
    /\ nrm.pc = "handled" /\ nrm.raw.pkind = "object"
    /\ Prop(nrm.raw.pay, "pm25") = Infinity /\ Prop(nrm.raw.pay, "co2") = NegInfinity
    /\ Prop(nrm.raw.top, "pm25") = Num(77) /\ Prop(nrm.raw.top, "co2") = Num(555)
    /\ nrm.msg.payload.pm25 = Num(15)
    /\ nrm.msg.payload.co2 = Undef

\* a payload that is an array beside pm25 77 at the top level: no
\* measurement
C22_WitnessArray ==
    /\ nrm.pc = "handled" /\ nrm.raw.pkind = "array"
    /\ Prop(nrm.raw.top, "pm25") = Num(77)
    /\ \A m \in DOMAIN AliasTable : nrm.msg.payload[m] = Undef

\* a payload that is a string beside pm25 77 at the top level: pm25 is 77
C22_WitnessFlat ==
    /\ nrm.pc = "handled" /\ nrm.raw.pkind = "string"
    /\ nrm.msg.payload.pm25 = Num(77) /\ nrm.msg.payload.co2 = Num(555)


\* the documents the store holds for message i
StoreOf(i) == SelectSeq(store, LAMBDA doc : doc.mid = i)

\* what the handler of message i comes to, from its own message and the
\* failures of its own awaited calls
OwnOutcome(i) ==
    LET out == onMessage(h[i].topic, h[i].buf) IN
    IF out.pc # "upsert" THEN out.why
    ELSE CASE h[i].failed = "upsert" -> "caughtUpsert"
           [] h[i].failed = "save"   -> "caughtSave"
           [] OTHER                  -> "done"

\* C23: under every interleaving of the handlers in flight, a message that
\* went through has exactly one document in the store and at most one alert
\* record on the bus, both with its own homeId, deviceId, stream and
\* measurements; what a handler comes to depends on its own message and its
\* own failures only, and a handler in flight is never stopped by another.
C23_HandlersIndependent ==
    \A i \in Mids :
        LET own == normalizeMessage(h[i].topic, h[i].buf.value) IN
        /\ Len(StoreOf(i)) <= 1 /\ Len(BusOf(i)) <= 1
        /\ h[i].why = "done" => Len(StoreOf(i)) = 1
        /\ \A k \in 1..Len(StoreOf(i)) :
              /\ StoreOf(i)[k].homeId = own.homeId /\ StoreOf(i)[k].deviceId = own.deviceId
              /\ StoreOf(i)[k].stream = own.stream /\ StoreOf(i)[k].payload = own.payload
        /\ \A k \in 1..Len(BusOf(i)) :
              /\ BusOf(i)[k].homeId = own.homeId /\ BusOf(i)[k].deviceId = own.deviceId
              /\ BusOf(i)[k].stream = own.stream
              /\ BusOf(i)[k].alerts = alertItems(own.payload)
        /\ h[i].pc = "returned" => h[i].why = OwnOutcome(i)
        /\ h[i].pc \in {"upsert", "save"} => alive


\* the handlers that got back an alert record published for message i
EchoesOf(i) == {echoed[k] : k \in {x \in 1..Len(echoed) : bus[x].mid = i}}

\* the pushes to the home room of the alert record derived from message i:
\* by its own handler, and by the handlers that got the record back
PushesOf(i) ==
    SelectSeq(emitted, LAMBDA e : /\ e.event = "alert"
                                  /\ e.room # <<"a","d","m","i","n">>
                                  /\ e.mid = i \/ e.mid \in EchoesOf(i))

\* C24: the alert record derived from a reading is pushed to the room of its
\* home once, although the router gets its own record back from the alerts
\* channel.
C24_AlertPushedOncePerReading ==
    \A i \in Mids : Len(PushesOf(i)) <= 1

\* C25: a handler of a message on the alerts channel publishes nothing, so
\* the bus holds at most one alert record per telemetry message handled, also
\* when the router gets its own records back.
C25_NoAlertFeedbackLoop ==
    /\ \A i \in Mids :
          /\ h[i].topic = T_ALERTS =>
                /\ BusOf(i) = <<>>
                /\ \A k \in 1..Len(h[i].calls) : h[i].calls[k].op = "emitAlert"
          /\ Len(BusOf(i)) <= 1
    /\ Len(bus) <= Cardinality({i \in Mids : h[i].pc # "none" /\ h[i].topic # T_ALERTS})
    /\ Len(echoed) <= Len(bus)

\* the router got its own alert record back, relayed it, and the bus still
\* holds that one record
C25_Witness ==
    /\ Len(echoed) = 1 /\ Len(bus) = 1
    /\ h[echoed[1]].why = "alert" /\ h[echoed[1]].topic = T_ALERTS
    /\ \E e \in 1..Len(emitted) : emitted[e].mid = echoed[1]

\* C26: when emitTelemetry throws, the reading stays in the store, the
\* handler ends normally, and the alert record of a breaching reading is
\* still published and pushed.
C26_EmitFailureDoesNotStopPipeline ==
    \A i \in Mids :
        h[i].failed = "emit" =>
            /\ alive /\ h[i].pc = "returned" /\ h[i].why = "done"
            /\ Len(StoreOf(i)) = 1 /\ StoreOf(i)[1].payload = h[i].msg.payload
            /\ BusOf(i) = IF BreachesOf(i) = <<>> THEN <<>>
                          ELSE << AlertRecordOf(i, BreachesOf(i)) >>
            /\ BreachesOf(i) # <<>> =>
                  \E k \in 1..Len(h[i].calls) :
                      h[i].calls[k].op = "emitAlert" /\ h[i].calls[k].items = BreachesOf(i)

\* emitTelemetry threw on the reading with two breaches; its record is on the
\* bus and was pushed to home:HOME_01 although no telemetry event went out
C26_Witness ==
    \E i \in Mids :
        /\ h[i].failed = "emit" /\ h[i].buf.value = RawAirAlarm
        /\ Len(BusOf(i)) = 1 /\ Len(StoreOf(i)) = 1
        /\ \A k \in 1..Len(emitted) : emitted[k].mid = i => emitted[k].event = "alert"
        /\ \E k \in 1..Len(emitted) : emitted[k].mid = i /\ emitted[k].room = HomeRoom(Str(S_HOME_01))


\* the topics of the program: those the simulator and the scripts publish
\* on, the control topics of the two device types and of single devices
KnownTopics ==
    Topics \cup NormTopics
    \cup {S_shega \o <<"/">> \o toLowerCase(t) \o <<"/">> \o S_control : t \in {S_STOVENODE, S_AIRNODE}}
    \cup {TOPIC_CTRL_BASE \o <<"/">> \o id : id \in StoveIds}
AtMostOneFilter(t) == Cardinality({f \in RouterFilters : topicMatches(f, t)}) <= 1
KnownTopicsDisjoint == \A t \in KnownTopics : AtMostOneFilter(t)

\* C27: no control topic shega/<type>/control matches a filter of the router,
\* so the broker never hands the router a message of the dispatcher and a
\* dispatch causes no upsert, no append and no alert; no topic matches more
\* than one of the router's filters.
C27_ControlNeverIngested ==
    /\ \A k \in 1..Len(ctlBus) :
          ctlBus[k].from = "dispatcher" =>
              /\ ~ctlBus[k].toRouter
              /\ \A f \in RouterFilters : ~topicMatches(f, ctlBus[k].topic)
    /\ \A c \in 1..Len(d) : d[c].topic # <<>> => ~routerReceives(d[c].topic)
    /\ n = 0 /\ registry = {} /\ store = <<>> /\ bus = <<>>
    /\ KnownTopicsDisjoint
    /\ \A k \in 1..Len(ctlBus) : AtMostOneFilter(ctlBus[k].topic)

\* a message of the dispatcher went through the broker, which gave it to
\* neither subscriber
C27_Witness ==
    \E k \in 1..Len(ctlBus) :
        /\ ctlBus[k].from = "dispatcher" /\ ctlBus[k].routed /\ ~ctlBus[k].toRouter
        /\ ctlBus[k].topic = T_STOVE_CONTROL
        /\ routerReceives(T_AIRDATA) /\ routerReceives(T_STOVE) /\ routerReceives(T_ALERTS)

SimStove == stoves[S_STOVE_HOME_01]
BuzzerDue == sim.tempC >= 250 * 100 \/ sim.co >= 35 * 100

\* C28: after every tick of the simulated stove buzzerOn equals (stove
\* temperature >= 250 or home CO >= 35): a tick overwrites the buzzerOn a
\* control message set, and a stove reading published by a tick carries the
\* value the tick computed; a tick changes fanOn only from false to true and
\* only when the stove is above the warn level, never back to false.
C28_BuzzerAfterTick ==
    sim.op = "tick" =>
        /\ SimStove.buzzerOn = BuzzerDue
        /\ (sim.now = sim.lastSent) =>
              LET p == sim.published[Len(sim.published)] IN
              /\ p.buzzerOn = BuzzerDue
              /\ p.fanOn = SimStove.fanOn
        /\ sim.before.fanOn => SimStove.fanOn
        /\ (SimStove.fanOn /\ ~sim.before.fanOn) => sim.tempC > 180 * 100
C28_TickKeepsFanOn ==
    (sim'.op = "tick" /\ sim'.steps = sim.steps + 1 /\ SimStove.fanOn) => SimStove'.fanOn
C28_BuzzerFollowsPhysicsFanKept == []C28_BuzzerAfterTick /\ [][C28_TickKeepsFanOn]_vars

\* a control message switched the buzzer and the fan on; the next tick
\* switched the buzzer off, kept the fan on and published that
C28_Witness ==
    /\ sim.op = "tick" /\ sim.beforeOp = "control"
    /\ sim.before.buzzerOn /\ sim.before.fanOn
    /\ ~SimStove.buzzerOn /\ SimStove.fanOn
    /\ sim.now = sim.lastSent
    /\ ~sim.published[Len(sim.published)].buzzerOn

\* the token a connection presented
TokenOf(c) == handshakeToken(sock[c].handshake)
TokenValid(c) == TokenOf(c).sig = "valid"
TokenAdmin(c) == TokenValid(c) /\ TokenOf(c).role = Str(S_admin)

\* the homes listed in the verified token of a connection: the elements of
\* its homes claim, none for a claim that is absent or no array
TokenHomes(c) ==
    IF TokenValid(c) /\ TokenOf(c).homes.t = "array"
    THEN {TokenOf(c).homes.items[k] : k \in 1..Len(TokenOf(c).homes.items)}
    ELSE {}

\* the text of a home as it stands in a room name, for the homes of the
\* tokens and of the emitted objects that have one
TextOfHome(x) ==
    CASE x.t = "string"    -> x.s
      [] x = Num(5)        -> <<"5">>
      [] x = Undef         -> <<"u","n","d","e","f","i","n","e","d">>
      [] x \in {Obj(<<>>), Obj(<<"valueOf">>)} ->
             <<"[","o","b","j","e","c","t"," ","O","b","j","e","c","t","]">>

\* the rooms home:<h> of the homes listed in the token of a connection
TokenRooms(c) ==
    {RoomOfText(TextOfHome(x)) : x \in {y \in TokenHomes(c) : y # Obj(<<"toString">>)}}

\* the connection handler of c ran to its end: the homes claim is absent or
\* an array of homes that each have a text
HandlerEnds(c) ==
    /\ TokenOf(c).homes.t \in {"array", "undefined"}
    /\ Obj(<<"toString">>) \notin TokenHomes(c)

\* C29: a connection without a valid token joins no room and receives
\* nothing, and so does a socket whose connection handler has not run; a
\* connected client whose verified token is not an admin's is in rooms
\* home:<h> of homes of its token only, in all of them once the handler ran
\* to its end, and receives telemetry, alert and command events only of
\* those homes (homes being told apart by the text that names the room); an
\* admin client receives the event of every emitter call that emitted since
\* it connected, whatever the home.
C29_RoomsFollowVerifiedToken ==
    \A c \in 1..Len(sock) :
        /\ ~TokenValid(c) => ~sock[c].connected
        /\ ~sock[c].connected => (sock[c].rooms = {} /\ sock[c].got = <<>>)
        /\ sock[c].threw <=> (sock[c].connected /\ ~HandlerEnds(c))
        /\ (sock[c].connected /\ ~TokenAdmin(c)) =>
              /\ sock[c].rooms \subseteq TokenRooms(c)
              /\ HandlerEnds(c) => sock[c].rooms = TokenRooms(c)
              /\ S_admin \notin sock[c].rooms
        /\ ~TokenAdmin(c) =>
              \A k \in 1..Len(sock[c].got) :
                    /\ sock[c].got[k].room = RoomOfText(TextOfHome(HomeIdOf(sock[c].got[k].call)))
                    /\ sock[c].got[k].room \in TokenRooms(c)
                    /\ sock[c].got[k].event \in {"telemetry", "alert", "command"}
        /\ (sock[c].connected /\ TokenAdmin(c)) =>
              /\ S_admin \in sock[c].rooms
              /\ \A m \in (sock[c].joined + 1)..Len(fan) :
                    (fan[m].ioReady /\ ~fan[m].threw) =>
                        \E k \in 1..Len(sock[c].got) :
                            /\ sock[c].got[k].mid = m
                            /\ sock[c].got[k].call = fan[m].call

\* a user of HOME_01 and an admin are connected; an event of HOME_02 reached
\* the admin only and an event of HOME_01 reached both
C29_Witness ==
    \E u, a \in 1..Len(sock) :
        /\ TokenValid(u) /\ ~TokenAdmin(u) /\ TokenHomes(u) = {Str(S_HOME_01)}
        /\ TokenAdmin(a) /\ sock[u].connected /\ sock[a].connected
        /\ sock[u].rooms = {<<"h","o","m","e",":","H","O","M","E","_","0","1">>}
        /\ \E m1, m2 \in 1..Len(fan) :
              /\ HomeIdOf(fan[m1].call) = Str(S_HOME_02)
              /\ HomeIdOf(fan[m2].call) = Str(S_HOME_01)
              /\ \E k \in 1..Len(sock[a].got) : sock[a].got[k].mid = m1
              /\ \A k \in 1..Len(sock[u].got) : sock[u].got[k].mid # m1
              /\ \E k \in 1..Len(sock[u].got) : sock[u].got[k].mid = m2
              /\ \E k \in 1..Len(sock[a].got) : sock[a].got[k].mid = m2

\* a user whose token lists the homes 5 and {} is in home:5 and
\* home:[object Object] and received the alert of home "5" and the command
\* whose homeId is an object, and not the alert of HOME_02
C29_WitnessTexts ==
    \E u \in 1..Len(sock) :
        /\ TokenHomes(u) = {Num(5), Obj(<<>>)} /\ sock[u].connected
        /\ sock[u].rooms =
              { <<"h","o","m","e",":","5">>,
                <<"h","o","m","e",":","[","o","b","j","e","c","t"," ","O","b","j","e","c","t","]">> }
        /\ Len(fan) = 3 /\ Len(sock[u].got) = 2
        /\ \E m \in 1..3 : HomeIdOf(fan[m].call) = Str(S_HOME_02)
        /\ \E k \in 1..2 : HomeIdOf(sock[u].got[k].call) = Str(<<"5">>)
        /\ \E k \in 1..2 : HomeIdOf(sock[u].got[k].call) = Obj(<<"valueOf">>)

\* an emitter call whose homeId has no text raised the TypeError after an
\* admin connected, and the admin received nothing of it
C29_WitnessNoEvent ==
    \E a \in 1..Len(sock), m \in 1..Len(fan) :
        /\ TokenAdmin(a) /\ sock[a].connected /\ sock[a].joined < m
        /\ fan[m].threw /\ sock[a].got = <<>>

\* the handler of a user whose second home has no text joined home:HOME_01
\* and raised the TypeError, and the process exited
C29_WitnessThrows ==
    \E u \in 1..Len(sock) :
        /\ sock[u].connected /\ sock[u].threw /\ ~alive
        /\ Obj(<<"toString">>) \in TokenHomes(u)
        /\ sock[u].rooms = {<<"h","o","m","e",":","H","O","M","E","_","0","1">>}

====
